---- MODULE Spec2Model ----
(***************************************************************************)
(* A model of the meilisearch-cli command handlers.                        *)
(*                                                                         *)
(* One CLI invocation is one run of the state machine: Invoke draws the    *)
(* command and its arguments, the handler's steps then execute in source   *)
(* order (configuration check, file checks, JSON parsing, the request and, *)
(* with --wait, the task polling of process_request), and the run ends in  *)
(* pc = "done" with an exit status.  The MeiliSearch server is the         *)
(* environment: it answers requests (possibly with an API error) and moves *)
(* the tasks it accepted through enqueued -> processing -> succeeded or    *)
(* failed, concurrently with the polling command.                          *)
(***************************************************************************)
EXTENDS Integers, Sequences, FiniteSets, TLC

(***************************************************************************)
(* Bounds of the model.                                                    *)
(***************************************************************************)
\* the largest number of tasks a batched submission returns
MaxBatches == 2
\* the time, in ms, that one sleep-and-poll round of wait_for_task takes
TickMs == 200000

(***************************************************************************)
(* Values.                                                                 *)
(***************************************************************************)
None == "None"

\* Python truthiness of an Optional[str]: None and "" are falsy
Truthy(v) == v # None /\ v # ""

Range(s) == {s[i] : i \in DOMAIN s}

IndexNames == {"movies"}

\* what may be given for --url / MEILI_HTTP_ADDR and --master-key / MEILI_MASTER_KEY
UrlFlags == {None, "", "http://flag:7700"}
UrlEnvs == {None, "http://env:7700"}
KeyFlags == {None, "", "flagKey"}
KeyEnvs == {None, "envKey"}

\* faulty variant: the environment variable goes before the flag
Effective_env_first(flag, env) == IF env # None THEN env ELSE flag

\* Option(None, envvar=...): the flag when given, else the environment variable
Effective(flag, env) == IF flag # None THEN flag ELSE env

\* JSON string arguments: a list of documents and a mapping of synonyms, which
\* parse; one that does not parse; and the empty string
ValidJson == {"[{id: 1}]", "[{id: 1, title: new}, {id: 2}]", "{wolverine: [logan]}"}
JsonStrings == ValidJson \cup {"test", ""}

\* file suffixes (Path.suffix) of the file argument
Suffixes == {".csv", ".json", ".ndjson", ".xml", ".CSV", ""}

\* error codes the server reports, synchronously or in a task record
ApiErrorCodes == {"index_not_found", "index_already_exists",
                  "primary_key_already_present", "invalid_request"}
TaskErrorCodes == {None, "index_not_found", "index_already_exists", "invalid_request"}

\* the message text of an API error is the server's: whatever it sends
ServerMessages(index) == {<<"Index", index, "not found">>,
                          <<"Index '", index, "' not found.">>}

(***************************************************************************)
(* Console output: one record per console.print / console.print_json.      *)
(***************************************************************************)
NoData == [what |-> "none", uids |-> <<>>, status |-> "", error |-> ""]

ErrorLine(text) == [kind |-> "error", title |-> "", text |-> text, data |-> NoData]
PanelItem(title, data) == [kind |-> "panel", title |-> title, text |-> <<>>, data |-> data]
JsonItem(data) == [kind |-> "json", title |-> "", text |-> <<>>, data |-> data]
PlainItem(text, data) == [kind |-> "plain", title |-> "", text |-> text, data |-> data]

(***************************************************************************)
(* _helpers.py                                                             *)
(***************************************************************************)
\* meilisearch.Client(url, api_key=None): the address and the key of the connection
Client(url, api_key) == [url |-> url, master_key |-> api_key]
NoConnection == Client(None, None)

MsgBothMissing ==
    <<"Values for", "--url", "and", "--master-key",
      "have to either be provided or available in the",
      "MEILI_HTTP_ADDR", "and", "MEILI_MASTER_KEY", "environment variables">>
MsgUrlMissing ==
    <<"A value for", "--url", "has to either be provied or available in the",
      "MEILI_HTTP_ADDR", "environment variable">>
MsgKeyMissing ==
    <<"A value for", "--master-key", "has to either be provied or available in the",
      "MEILI_MASTER_KEY", "environment variable">>

\* Faulty variants of create_client, against which the properties are validated:
\* one that prints the message of the other missing value ...
create_client_swapped(url, master_key) ==
    IF ~Truthy(url) /\ ~Truthy(master_key)
      THEN [exits |-> TRUE, status |-> 0, printed |-> <<ErrorLine(MsgBothMissing)>>,
            client |-> FALSE]
    ELSE IF ~Truthy(url)
      THEN [exits |-> TRUE, status |-> 0, printed |-> <<ErrorLine(MsgKeyMissing)>>,
            client |-> FALSE]
    ELSE IF ~Truthy(master_key)
      THEN [exits |-> TRUE, status |-> 0, printed |-> <<ErrorLine(MsgUrlMissing)>>,
            client |-> FALSE]
    ELSE [exits |-> FALSE, status |-> 0, printed |-> <<>>, client |-> TRUE]

\* ... and one that prints the message but goes on to build the client
create_client_no_exit(url, master_key) ==
    IF ~Truthy(url) /\ ~Truthy(master_key)
      THEN [exits |-> FALSE, status |-> 0, printed |-> <<ErrorLine(MsgBothMissing)>>,
            client |-> TRUE]
    ELSE IF ~Truthy(url)
      THEN [exits |-> FALSE, status |-> 0, printed |-> <<ErrorLine(MsgUrlMissing)>>,
            client |-> TRUE]
    ELSE IF ~Truthy(master_key)
      THEN [exits |-> FALSE, status |-> 0, printed |-> <<ErrorLine(MsgKeyMissing)>>,
            client |-> TRUE]
    ELSE [exits |-> FALSE, status |-> 0, printed |-> <<>>, client |-> TRUE]

\* create_client: [exits, printed, client]; sys.exit() without argument is status 0
create_client(url, master_key) ==
    IF ~Truthy(url) /\ ~Truthy(master_key)
      THEN [exits |-> TRUE, status |-> 0, printed |-> <<ErrorLine(MsgBothMissing)>>,
            client |-> FALSE]
    ELSE IF ~Truthy(url)
      THEN [exits |-> TRUE, status |-> 0, printed |-> <<ErrorLine(MsgUrlMissing)>>,
            client |-> FALSE]
    ELSE IF ~Truthy(master_key)
      THEN [exits |-> TRUE, status |-> 0, printed |-> <<ErrorLine(MsgKeyMissing)>>,
            client |-> FALSE]
    ELSE [exits |-> FALSE, status |-> 0, printed |-> <<>>, client |-> TRUE]


\* result["error"]["message"] of a task record: the server's text for the code
TaskErrorMessage(error_code) == <<"task error", error_code>>

\* faulty variant: index_not_found is raised like any other error
check_index_status_not_found_raises(error_code, index_id) ==
    IF error_code # None
      THEN IF error_code = "index_already_exists"
             THEN [outcome |-> "exit", status |-> 0, exc |-> "none", message |-> <<>>,
                   printed |-> <<ErrorLine(<<"Index", index_id, "already exists">>)>>]
           ELSE [outcome |-> "raise", status |-> 1, exc |-> "MeiliSearchError",
                 message |-> TaskErrorMessage(error_code), printed |-> <<>>]
      ELSE [outcome |-> "return", status |-> 0, exc |-> "none", message |-> <<>>,
            printed |-> <<>>]

\* check_index_status, given the error code of the task record that get_task reads
\* (None when the record carries no error)
check_index_status(error_code, index_id) ==
    IF error_code # None
      THEN IF error_code = "index_already_exists"
             THEN [outcome |-> "exit", status |-> 0, exc |-> "none", message |-> <<>>,
                   printed |-> <<ErrorLine(<<"Index", index_id, "already exists">>)>>]
           ELSE IF error_code = "index_not_found"
             THEN [outcome |-> "exit", status |-> 0, exc |-> "none", message |-> <<>>,
                   printed |-> <<ErrorLine(<<"Index", index_id, "not found">>)>>]
           ELSE [outcome |-> "raise", status |-> 1, exc |-> "MeiliSearchError",
                 message |-> TaskErrorMessage(error_code), printed |-> <<>>]
      ELSE [outcome |-> "return", status |-> 0, exc |-> "none", message |-> <<>>,
            printed |-> <<>>]

\* handle_meilisearch_api_error: print for index_not_found, re-raise anything else
handle_meilisearch_api_error(code, index_name) ==
    IF code = "index_not_found"
      THEN [handled |-> TRUE, printed |-> <<ErrorLine(<<"Index", index_name, "not found">>)>>]
      ELSE [handled |-> FALSE, printed |-> <<>>]

print_json_parse_error_message(json_str) ==
    ErrorLine(<<"Unable to parse", json_str, "as JSON">>)

\* print_panel_or_raw: print_json(json.dumps(data)) with raw, else the titled panel
print_panel_or_raw(raw, data, panel_title) ==
    IF raw THEN JsonItem(data) ELSE PanelItem(panel_title, data)

MsgNotAccepted(file_type) ==
    <<file_type, "files are not accepted. Only .json, .csv, and .ndjson are accepted">>

\* faulty variant: the content types of .csv and .json exchanged, and the suffix
\* compared without regard to case
validate_file_type_and_set_content_type_mixed(file_type) ==
    IF file_type \in {".csv", ".CSV"}
      THEN [exits |-> FALSE, status |-> 0, content_type |-> "application/json",
            printed |-> <<>>]
    ELSE IF file_type = ".json"
      THEN [exits |-> FALSE, status |-> 0, content_type |-> "text/csv", printed |-> <<>>]
    ELSE IF file_type = ".ndjson"
      THEN [exits |-> FALSE, status |-> 0, content_type |-> "application/x-ndjson",
            printed |-> <<>>]
    ELSE [exits |-> TRUE, status |-> 0, content_type |-> None,
          printed |-> <<ErrorLine(MsgNotAccepted(file_type))>>]

\* validate_file_type_and_set_content_type, on file_path.suffix
validate_file_type_and_set_content_type(file_type) ==
    IF file_type = ".csv"
      THEN [exits |-> FALSE, status |-> 0, content_type |-> "text/csv", printed |-> <<>>]
    ELSE IF file_type = ".json"
      THEN [exits |-> FALSE, status |-> 0, content_type |-> "application/json",
            printed |-> <<>>]
    ELSE IF file_type = ".ndjson"
      THEN [exits |-> FALSE, status |-> 0, content_type |-> "application/x-ndjson",
            printed |-> <<>>]
    ELSE [exits |-> TRUE, status |-> 0, content_type |-> None,
          printed |-> <<ErrorLine(MsgNotAccepted(file_type))>>]

(***************************************************************************)
(* main.py: code written inline in the handlers.                           *)
(***************************************************************************)
\* verify_url_and_master_key is imported by main.py and dump.py; its definition is
\* not among the sources.  Modelled from the specification's configuration error:
\* a message naming the missing value(s), and a clean exit.
verify_url_and_master_key(url, master_key) ==
    IF ~Truthy(url) /\ ~Truthy(master_key)
      THEN [exits |-> TRUE, status |-> 0, printed |-> <<ErrorLine(MsgBothMissing)>>]
    ELSE IF ~Truthy(url)
      THEN [exits |-> TRUE, status |-> 0, printed |-> <<ErrorLine(MsgUrlMissing)>>]
    ELSE IF ~Truthy(master_key)
      THEN [exits |-> TRUE, status |-> 0, printed |-> <<ErrorLine(MsgKeyMissing)>>]
    ELSE [exits |-> FALSE, status |-> 0, printed |-> <<>>]

\* health: if not url: console.print(...); sys.exit()
MsgHealthUrlMissing ==
    <<"A value for", "--url", "has to either be provied or available in the",
      "MEILI_HTTP_ADDR", "environment variable">>

main_health_check_url(url) ==
    IF ~Truthy(url)
      THEN [exits |-> TRUE, status |-> 0, printed |-> <<ErrorLine(MsgHealthUrlMissing)>>]
      ELSE [exits |-> FALSE, status |-> 0, printed |-> <<>>]

\* add_documents_from_file / update_documents_from_file: the suffix test
main_check_file_type(file_type) ==
    IF file_type \notin {".json", ".csv", ".ndjson"}
      THEN [exits |-> TRUE, status |-> 0, printed |-> <<ErrorLine(MsgNotAccepted(file_type))>>]
      ELSE [exits |-> FALSE, status |-> 0, printed |-> <<>>]

\* ... and the content type chosen after the file was read
main_content_type(file_type) ==
    IF file_type = ".csv" THEN "text/csv"
    ELSE IF file_type = ".json" THEN "application/json"
    ELSE IF file_type = ".ndjson" THEN "application/x-ndjson"
    ELSE None

(***************************************************************************)
(* The except MeiliSearchApiError blocks of the handlers.                  *)
(***************************************************************************)
\* faulty variant: the except block without its else: raise e
except_index_not_found_swallows(code, message, index) ==
    IF code = "index_not_found"
      THEN [handled |-> TRUE, printed |-> <<ErrorLine(<<"Index", index, "not found">>)>>]
      ELSE [handled |-> TRUE, printed |-> <<>>]

\* if e.error_code == "index_not_found": print "Index <index> not found" else: raise e
except_index_not_found(code, message, index) ==
    IF code = "index_not_found"
      THEN [handled |-> TRUE, printed |-> <<ErrorLine(<<"Index", index, "not found">>)>>]
      ELSE [handled |-> FALSE, printed |-> <<>>]

\* get_index prints e.message
except_get_index(code, message, index) ==
    IF code = "index_not_found"
      THEN [handled |-> TRUE, printed |-> <<ErrorLine(message)>>]
      ELSE [handled |-> FALSE, printed |-> <<>>]

except_create_index(code, message, index) ==
    IF code = "index_already_exists"
      THEN [handled |-> TRUE, printed |-> <<ErrorLine(<<"Index", index, "already exists">>)>>]
      ELSE [handled |-> FALSE, printed |-> <<>>]

except_update_index(code, message, index) ==
    IF code = "index_not_found"
      THEN [handled |-> TRUE, printed |-> <<ErrorLine(<<"Index", index, "not found">>)>>]
    ELSE IF code = "primary_key_already_present"
      THEN [handled |-> TRUE,
            printed |-> <<ErrorLine(<<"Index", index,
                                      "already contains a primary key, cannot be reset">>)>>]
    ELSE [handled |-> FALSE, printed |-> <<>>]


(***************************************************************************)
(* The command handlers.  A handler is the sequence of its steps in source *)
(* order, the exception its try block catches and what the except block    *)
(* does with an API error, the client method it submits (and whether that  *)
(* method returns a list of tasks), the method it reads the result back    *)
(* with, the title it passes to process_request or to the panel, and, for  *)
(* a handler that prints the answer itself, how it shows it.               *)
(***************************************************************************)
Cmd(name, steps, catches, handler, request, returnsList, retrieve, title, show) ==
    [name |-> name, steps |-> steps, catches |-> catches, handler |-> handler,
     request |-> request, returnsList |-> returnsList, retrieve |-> retrieve,
     title |-> title, show |-> show]

NoCmd == Cmd("", <<>>, "none", "none", "", FALSE, "", "", "")

\* faulty variant: the handler without its except json.decoder.JSONDecodeError block
documents_add_no_except ==
    Cmd("documents.add", <<"create_client", "json_loads", "process_request">>,
        "none", "none", "add_documents", FALSE, "get_documents",
        "Add Documents Result", "")

\* faulty variant: the documents are sent to update_documents
documents_add_as_update ==
    Cmd("documents.add", <<"create_client", "json_loads", "process_request">>,
        "JSONDecodeError", "none", "update_documents", FALSE, "get_documents",
        "Add Documents Result", "")

documents_add ==
    Cmd("documents.add", <<"create_client", "json_loads", "process_request">>,
        "JSONDecodeError", "none", "add_documents", FALSE, "get_documents",
        "Add Documents Result", "")

\* faulty variant: the client is built before the file type is looked at
documents_add_from_file_client_first ==
    Cmd("documents.add_from_file", <<"create_client", "validate_file", "open", "process_request">>,
        "none", "none", "add_documents_raw", FALSE, "get_documents",
        "Add Documents Result", "")

documents_add_from_file ==
    Cmd("documents.add_from_file", <<"validate_file", "open", "create_client", "process_request">>,
        "none", "none", "add_documents_raw", FALSE, "get_documents",
        "Add Documents Result", "")

documents_add_in_batches ==
    Cmd("documents.add_in_batches", <<"create_client", "json_loads", "process_request">>,
        "JSONDecodeError", "none", "add_documents_in_batches", TRUE, "get_documents",
        "Add Documents Result", "")

documents_delete_all ==
    Cmd("documents.delete_all", <<"create_client", "process_request">>,
        "none", "none", "delete_all_documents", FALSE, "get_documents",
        "Delete Documents Result", "")

documents_delete ==
    Cmd("documents.delete", <<"create_client", "process_request">>,
        "none", "none", "delete_document", FALSE, "get_documents",
        "Delete Document Result", "")

documents_delete_multiple ==
    Cmd("documents.delete_multiple", <<"create_client", "process_request">>,
        "none", "none", "delete_documents", FALSE, "get_documents",
        "Delete Documents Result", "")

documents_get ==
    Cmd("documents.get", <<"create_client", "request">>,
        "MeiliSearchApiError", "index_not_found", "get_document", FALSE, "",
        "Document", "panel")

documents_get_all ==
    Cmd("documents.get_all", <<"create_client", "request">>,
        "MeiliSearchApiError", "index_not_found", "get_documents", FALSE, "",
        "Documents", "panel")

documents_update ==
    Cmd("documents.update", <<"create_client", "json_loads", "process_request">>,
        "JSONDecodeError", "none", "update_documents", FALSE, "get_documents",
        "Update Documents", "")

documents_update_from_file ==
    Cmd("documents.update_from_file", <<"validate_file", "open", "create_client", "process_request">>,
        "none", "none", "add_documents_raw", FALSE, "get_documents",
        "Update Documents", "")

documents_update_in_batches ==
    Cmd("documents.update_in_batches", <<"create_client", "json_loads", "process_request">>,
        "JSONDecodeError", "none", "update_documents_in_batches", TRUE, "get_documents",
        "Update Documents", "")

index_get_all ==
    Cmd("index.get_all", <<"create_client", "request">>,
        "none", "none", "get_raw_indexes", FALSE, "",
        "All Indexes", "panel")

index_update_displayed_attributes ==
    Cmd("index.update_displayed_attributes", <<"create_client", "process_request">>,
        "none", "none", "update_displayed_attributes", FALSE, "get_displayed_attributes",
        "Update Displayed Attributes", "")

index_update_distinct_attribute ==
    Cmd("index.update_distinct_attribute", <<"create_client", "process_request">>,
        "none", "none", "update_distinct_attribute", FALSE, "get_distinct_attribute",
        "Update Distinct Attribute", "")

index_update_ranking_rules ==
    Cmd("index.update_ranking_rules", <<"create_client", "process_request">>,
        "none", "none", "update_ranking_rules", FALSE, "get_ranking_rules",
        "Update Ranking Rules", "")

index_update_searchable_attributes ==
    Cmd("index.update_searchable_attributes", <<"create_client", "process_request">>,
        "none", "none", "update_searchable_attributes", FALSE, "get_searchable_attributes",
        "Update Searchable Attributes", "")

index_update_sortable_attributes ==
    Cmd("index.update_sortable_attributes", <<"create_client", "process_request">>,
        "none", "none", "update_sortable_attributes", FALSE, "get_sortable_attributes",
        "Update Searchable Attributes", "")

index_update_stop_words ==
    Cmd("index.update_stop_words", <<"create_client", "process_request">>,
        "none", "none", "update_stop_words", FALSE, "get_stop_words",
        "Update Stop Words", "")

index_update_settings ==
    Cmd("index.update_settings", <<"create_client", "settings", "process_request">>,
        "JSONDecodeError", "none", "update_settings", FALSE, "get_settings",
        "Update Settings", "")

index_update_synonyms ==
    Cmd("index.update_synonyms", <<"create_client", "json_loads", "process_request">>,
        "JSONDecodeError", "none", "update_synonyms", FALSE, "get_synonyms",
        "Update Synonyms", "")

main_add_documents_from_file ==
    Cmd("main.add_documents_from_file", <<"check_file_type", "verify_url_and_master_key", "open", "content_type", "Client", "process_request">>,
        "none", "none", "add_documents_raw", FALSE, "get_documents",
        "", "")

main_update_documents_from_file ==
    Cmd("main.update_documents_from_file", <<"check_file_type", "verify_url_and_master_key", "open", "content_type", "Client", "process_request">>,
        "none", "none", "add_documents_raw", FALSE, "get_documents",
        "", "")

main_create_index ==
    Cmd("main.create_index", <<"verify_url_and_master_key", "Client", "request">>,
        "MeiliSearchApiError", "create_index", "create_index", FALSE, "",
        "", "plain")

main_delete_index ==
    Cmd("main.delete_index", <<"verify_url_and_master_key", "Client", "request">>,
        "MeiliSearchApiError", "index_not_found", "delete_index", FALSE, "",
        "", "deleted")

main_get_all_update_status ==
    Cmd("main.get_all_update_status", <<"verify_url_and_master_key", "Client", "request">>,
        "MeiliSearchApiError", "index_not_found", "get_all_update_status", FALSE, "",
        "", "plain")

main_get_document ==
    Cmd("main.get_document", <<"verify_url_and_master_key", "Client", "request">>,
        "MeiliSearchApiError", "index_not_found", "get_document", FALSE, "",
        "", "plain")

main_get_documents ==
    Cmd("main.get_documents", <<"verify_url_and_master_key", "Client", "request">>,
        "MeiliSearchApiError", "index_not_found", "get_documents", FALSE, "",
        "", "plain")

main_get_primary_key ==
    Cmd("main.get_primary_key", <<"verify_url_and_master_key", "Client", "request">>,
        "MeiliSearchApiError", "index_not_found", "get_primary_key", FALSE, "",
        "", "plain")

main_get_settings ==
    Cmd("main.get_settings", <<"verify_url_and_master_key", "Client", "request">>,
        "MeiliSearchApiError", "index_not_found", "get_settings", FALSE, "",
        "", "plain")

\* faulty variant: health asks for the master key as the other commands do
main_health_with_master_key ==
    Cmd("main.health", <<"verify_url_and_master_key", "Client", "request">>,
        "none", "none", "health", FALSE, "",
        "", "plain")

main_health ==
    Cmd("main.health", <<"health_check_url", "Client_url", "request">>,
        "none", "none", "health", FALSE, "",
        "", "plain")

main_get_stats ==
    Cmd("main.get_stats", <<"verify_url_and_master_key", "Client", "request">>,
        "MeiliSearchApiError", "index_not_found", "get_stats", FALSE, "",
        "", "plain")

main_get_update_status ==
    Cmd("main.get_update_status", <<"verify_url_and_master_key", "Client", "request">>,
        "MeiliSearchApiError", "index_not_found", "get_update_status", FALSE, "",
        "", "plain")

main_get_index ==
    Cmd("main.get_index", <<"verify_url_and_master_key", "Client", "request">>,
        "MeiliSearchApiError", "get_index", "get_raw_index", FALSE, "",
        "", "plain")

main_reset_displayed_attributes ==
    Cmd("main.reset_displayed_attributes", <<"verify_url_and_master_key", "Client", "process_request">>,
        "MeiliSearchApiError", "index_not_found", "reset_displayed_attributes", FALSE, "get_displayed_attributes",
        "", "")

main_reset_distinct_attribute ==
    Cmd("main.reset_distinct_attribute", <<"verify_url_and_master_key", "Client", "process_request">>,
        "MeiliSearchApiError", "index_not_found", "reset_distinct_attribute", FALSE, "get_distinct_attribute",
        "", "")

main_reset_filterable_attributes ==
    Cmd("main.reset_filterable_attributes", <<"verify_url_and_master_key", "Client", "process_request">>,
        "MeiliSearchApiError", "index_not_found", "reset_filterable_attributes", FALSE, "get_filterable_attributes",
        "", "")

main_reset_ranking_rules ==
    Cmd("main.reset_ranking_rules", <<"verify_url_and_master_key", "Client", "process_request">>,
        "MeiliSearchApiError", "index_not_found", "reset_ranking_rules", FALSE, "get_ranking_rules",
        "", "")

main_reset_searchable_attributes ==
    Cmd("main.reset_searchable_attributes", <<"verify_url_and_master_key", "Client", "process_request">>,
        "MeiliSearchApiError", "index_not_found", "reset_searchable_attributes", FALSE, "get_searchable_attributes",
        "", "")

main_reset_settings ==
    Cmd("main.reset_settings", <<"verify_url_and_master_key", "Client", "process_request">>,
        "MeiliSearchApiError", "index_not_found", "reset_settings", FALSE, "get_settings",
        "", "")

main_reset_stop_words ==
    Cmd("main.reset_stop_words", <<"verify_url_and_master_key", "Client", "process_request">>,
        "MeiliSearchApiError", "index_not_found", "reset_stop_words", FALSE, "get_stop_words",
        "", "")

main_reset_synonyms ==
    Cmd("main.reset_synonyms", <<"verify_url_and_master_key", "Client", "process_request">>,
        "MeiliSearchApiError", "index_not_found", "reset_synonyms", FALSE, "get_synonyms",
        "", "")

main_update_index ==
    Cmd("main.update_index", <<"verify_url_and_master_key", "Client", "request">>,
        "MeiliSearchApiError", "update_index", "update_index", FALSE, "",
        "", "plain")

Commands ==
    {documents_add, documents_add_from_file, documents_add_in_batches,
     documents_delete_all, documents_delete, documents_delete_multiple,
     documents_get, documents_get_all, documents_update,
     documents_update_from_file, documents_update_in_batches, index_get_all,
     index_update_displayed_attributes, index_update_distinct_attribute, index_update_ranking_rules,
     index_update_searchable_attributes, index_update_sortable_attributes, index_update_stop_words,
     index_update_settings, index_update_synonyms, main_add_documents_from_file,
     main_update_documents_from_file, main_create_index, main_delete_index,
     main_get_all_update_status, main_get_document, main_get_documents,
     main_get_primary_key, main_get_settings, main_get_stats,
     main_get_update_status, main_get_index, main_reset_displayed_attributes,
     main_reset_distinct_attribute, main_reset_filterable_attributes, main_reset_ranking_rules,
     main_reset_searchable_attributes, main_reset_settings, main_reset_stop_words,
     main_reset_synonyms, main_update_index, main_health}


(***************************************************************************)
(* Python values, as the client library hands them to the printing         *)
(* helpers: None, strings, numbers, mappings (key/value pairs in insertion *)
(* order) and lists.                                                       *)
(***************************************************************************)
PyNone == [t |-> "none", s |-> "", items |-> <<>>]
PyStr(s) == [t |-> "str", s |-> s, items |-> <<>>]
PyInt(s) == [t |-> "int", s |-> s, items |-> <<>>]
PyDict(items) == [t |-> "dict", s |-> "", items |-> items]
PyList(items) == [t |-> "list", s |-> "", items |-> items]
PyBool(b) == [t |-> "bool", s |-> IF b THEN "True" ELSE "False", items |-> <<>>]
Item(key, value) == [key |-> key, value |-> value]

EmptyDict == PyDict(<<>>)
EmptyList == PyList(<<>>)

\* one piece of printed text: what kind of piece it is, and its characters
Tok(k, s) == [k |-> k, s |-> s]

RECURSIVE SeqConcat(_)
SeqConcat(ss) == IF ss = <<>> THEN <<>> ELSE ss[1] \o SeqConcat(Tail(ss))

\* the pieces joined with a separator between them
JoinWith(ss, sep) ==
    SeqConcat([i \in 1..Len(ss) |-> IF i = 1 THEN ss[i] ELSE <<sep>> \o ss[i]])

RECURSIVE json_dumps(_)
\* json.dumps(data, default=str)
json_dumps(v) ==
    CASE v.t = "none" -> <<Tok("null", "null")>>
      [] v.t = "str" -> <<Tok("string", v.s)>>
      [] v.t = "int" -> <<Tok("number", v.s)>>
      [] v.t = "dict" ->
           <<Tok("punct", "{")>>
             \o JoinWith([i \in 1..Len(v.items) |->
                            <<Tok("key", v.items[i].key), Tok("punct", ":")>>
                              \o json_dumps(v.items[i].value)],
                         Tok("punct", ","))
             \o <<Tok("punct", "}")>>
      [] v.t = "list" ->
           <<Tok("punct", "[")>>
             \o JoinWith([i \in 1..Len(v.items) |-> json_dumps(v.items[i])],
                         Tok("punct", ","))
             \o <<Tok("punct", "]")>>

RECURSIVE py_repr(_)
\* repr(value): what str() of a list or of a dict shows of its elements
py_repr(v) ==
    CASE v.t = "none" -> <<Tok("text", "None")>>
      [] v.t = "str" -> <<Tok("quoted", v.s)>>
      [] v.t = "int" -> <<Tok("text", v.s)>>
      [] v.t = "dict" ->
           IF v.items = <<>> THEN <<Tok("text", "{}")>>
           ELSE <<Tok("punct", "{")>>
                  \o JoinWith([i \in 1..Len(v.items) |->
                                 <<Tok("quoted", v.items[i].key), Tok("punct", ":")>>
                                   \o py_repr(v.items[i].value)],
                              Tok("punct", ","))
                  \o <<Tok("punct", "}")>>
      [] v.t = "list" ->
           IF v.items = <<>> THEN <<Tok("text", "[]")>>
           ELSE <<Tok("punct", "[")>>
                  \o JoinWith([i \in 1..Len(v.items) |-> py_repr(v.items[i])],
                              Tok("punct", ","))
                  \o <<Tok("punct", "]")>>

\* f"{value}": str(value) -- a string as it is, anything else as its repr
py_str(v) == IF v.t = "str" THEN <<Tok("text", v.s)>> ELSE py_repr(v)

\* a rich Panel: its title, whether it is fitted, its border colour, and its
\* content -- lines of text, or a group of panels
Panel(title, fit, border, lines, panels) ==
    [title |-> title, fit |-> fit, border |-> border, lines |-> lines, panels |-> panels]

\* f"[green]{key}[/]: {value}"
PanelLine(key, value) == <<Tok("green", key), Tok("punct", ":")>> \o py_str(value)

\* faulty variant of the mapping branch: each line replaces the ones before it
create_panel_info_last_only(data) ==
    IF data = EmptyDict THEN <<<<Tok("text", "{}")>>>>
    ELSE IF data.t = "none" THEN <<>>
    ELSE <<PanelLine(data.items[Len(data.items)].key, data.items[Len(data.items)].value)>>

\* faulty variant of the mapping branch: nothing special for the empty mapping
create_panel_info_no_braces(data) ==
    IF data.t = "none" THEN <<>>
    ELSE [i \in 1..Len(data.items) |-> PanelLine(data.items[i].key, data.items[i].value)]

\* create_panel, the else branch: info for a mapping or for None
create_panel_info(data) ==
    IF data = EmptyDict THEN <<<<Tok("text", "{}")>>>>
    ELSE IF data.t = "none" THEN <<>>
    ELSE [i \in 1..Len(data.items) |-> PanelLine(data.items[i].key, data.items[i].value)]

\* faulty variant: the elements of a list get their panels without create_panel being
\* called on them again, so a list among them is printed as text
create_panel_one_level(data, title, fit, panel_border_color) ==
    LET info(d) == IF d.t \in {"dict", "none"} THEN create_panel_info(d) ELSE <<py_str(d)>> IN
    IF data.t = "list" /\ data.items # <<>>
      THEN Panel(title, fit, panel_border_color, <<>>,
                 [i \in 1..Len(data.items) |->
                    Panel("", FALSE, "dodger_blue1", info(data.items[i]), <<>>)])
      ELSE Panel(title, fit, panel_border_color, info(data), <<>>)

RECURSIVE create_panel(_, _, _, _)
\* create_panel(data, title=title, fit=fit, panel_border_color=panel_border_color)
create_panel(data, title, fit, panel_border_color) ==
    IF data.t = "str"
      THEN Panel(title, fit, panel_border_color, <<<<Tok("text", data.s)>>>>, <<>>)
    ELSE IF data.t = "list"
      THEN IF data.items # <<>>
             THEN Panel(title, fit, panel_border_color, <<>>,
                        [i \in 1..Len(data.items) |->
                           create_panel(data.items[i], "", FALSE, "dodger_blue1")])
             ELSE Panel(title, fit, panel_border_color, <<<<Tok("text", "[]")>>>>, <<>>)
    ELSE Panel(title, fit, panel_border_color, create_panel_info(data), <<>>)

\* what print_panel_or_raw puts on the screen: console.print_json of the dump, or
\* console.print of the panel
Rendering(kind, json, panel) == [kind |-> kind, json |-> json, panel |-> panel]
NoPanel == Panel("", FALSE, "", <<>>, <<>>)

\* faulty variant: None printed raw as the word None
print_panel_or_raw_screen_str(raw, data, panel_title) ==
    IF raw THEN Rendering("json", py_str(data), NoPanel)
           ELSE Rendering("panel", <<>>, create_panel(data, panel_title, TRUE, "sky_blue2"))

print_panel_or_raw_screen(raw, data, panel_title) ==
    IF raw THEN Rendering("json", json_dumps(data), NoPanel)
           ELSE Rendering("panel", <<>>, create_panel(data, panel_title, TRUE, "sky_blue2"))

\* the values printed in the sample runs
SampleData ==
    {PyNone, PyStr("test"), EmptyDict, EmptyList,
     PyDict(<<Item("id", PyInt("1")), Item("name", PyStr("test"))>>),
     PyDict(<<Item("uid", PyStr("movies")), Item("primary_key", PyNone)>>),
     PyDict(<<Item("rankingRules", PyList(<<PyStr("words"), PyStr("typo")>>)),
              Item("synonyms", EmptyDict), Item("distinctAttribute", PyNone),
              Item("filterableAttributes", EmptyList)>>),
     PyList(<<PyDict(<<Item("id", PyInt("1"))>>), PyDict(<<Item("id", PyInt("2"))>>)>>),
     PyList(<<EmptyDict, PyStr("test"), PyNone>>),
     PyList(<<PyList(<<PyDict(<<Item("id", PyInt("1"))>>)>>), EmptyList>>)}

\* json.loads on the sample strings: the parsed value, or JSONDecodeError
json_loads(s) ==
    IF s = "[{id: 1}]"
      THEN [ok |-> TRUE, value |-> PyList(<<PyDict(<<Item("id", PyInt("1"))>>)>>)]
    ELSE IF s = "[{id: 1, title: new}, {id: 2}]"
      THEN [ok |-> TRUE,
            value |-> PyList(<<PyDict(<<Item("id", PyInt("1")), Item("title", PyStr("new"))>>),
                               PyDict(<<Item("id", PyInt("2"))>>)>>)]
    ELSE IF s = "{wolverine: [logan]}"
      THEN [ok |-> TRUE,
            value |-> PyDict(<<Item("wolverine", PyList(<<PyStr("logan")>>))>>)]
    ELSE [ok |-> FALSE, value |-> PyNone]

\* Python truthiness of a value: None, "", 0, False, {} and [] are falsy
PyTruthy(v) ==
    /\ v.t # "none"
    /\ v.t = "str" => v.s # ""
    /\ v.t = "int" => v.s # "0"
    /\ v.t = "bool" => v.s # "False"
    /\ v.t \in {"dict", "list"} => v.items # <<>>

(***************************************************************************)
(* The server, as the commands see it.                                     *)
(***************************************************************************)
\* the API errors a request may be answered with, by client method
ServerErrors(op) ==
    IF op = "create_index" THEN {"index_already_exists", "invalid_request"}
    ELSE IF op = "update_index"
      THEN {"index_not_found", "primary_key_already_present", "invalid_request"}
    ELSE IF op \in {"get_raw_indexes"} THEN {"invalid_request"}
    ELSE {"index_not_found", "invalid_request"}

NoApiError == [code |-> None, message |-> <<>>]

PendingStatuses == {"enqueued", "processing"}


NoUpdate == [isList |-> FALSE, uids |-> <<>>]
NoResponse == [uid |-> 0, status |-> "", error |-> None]

NoArgs == [index |-> "", url |-> None, master_key |-> None, wait |-> FALSE, raw |-> FALSE,
           json |-> None, suffix |-> "", encodes |-> TRUE,
           distinct_attribute |-> PyNone, stop_words |-> PyNone]

(***************************************************************************)
(* main.py, search: the options of the command line and the dict of search *)
(* parameters the handler builds from them.  An option that was not given  *)
(* is None (False for --matches), as typer passes it.                      *)
(***************************************************************************)
\* the options, in the order the handler looks at them
SearchOptionNames ==
    <<"offset", "limit", "filter", "facets_distribution", "attributes_to_retrieve",
      "attributes_to_crop", "crop_length", "attributes_to_hightlight", "matches", "sort">>

\* the key the handler stores an option under
ParamName(option) ==
    CASE option = "facets_distribution" -> "facetsDistribution"
      [] option = "attributes_to_retrieve" -> "attributesToRetrieve"
      [] option = "attributes_to_crop" -> "attributesToCrop"
      [] option = "crop_length" -> "cropLength"
      [] option = "attributes_to_hightlight" -> "attributesToHighlight"
      [] OTHER -> option

NoOptions ==
    [offset |-> PyNone, limit |-> PyNone, filter |-> PyNone, facets_distribution |-> PyNone,
     attributes_to_retrieve |-> PyNone, attributes_to_crop |-> PyNone, crop_length |-> PyNone,
     attributes_to_hightlight |-> PyNone, matches |-> PyBool(FALSE), sort |-> PyNone]

IntGiven(n) == {PyNone, PyInt("0"), PyInt(n)}
ListGiven(v) == {PyNone, PyList(<<PyStr(v)>>)}

\* what the command line of search can hold
SearchOptions ==
    [offset : IntGiven("1"), limit : IntGiven("10"), filter : ListGiven("genre = comedy"),
     facets_distribution : ListGiven("genre"), attributes_to_retrieve : ListGiven("title"),
     attributes_to_crop : ListGiven("description"), crop_length : IntGiven("225"),
     attributes_to_hightlight : ListGiven("title"),
     matches : {PyBool(FALSE), PyBool(TRUE)}, sort : ListGiven("title:asc")]

\* _helpers.py: if param: search_params[param_name] = param; return search_params
set_search_param(search_params_, param, param_name) ==
    IF PyTruthy(param)
      THEN IF \E i \in DOMAIN search_params_ : search_params_[i].key = param_name
             THEN [i \in DOMAIN search_params_ |->
                     IF search_params_[i].key = param_name THEN Item(param_name, param)
                                                          ELSE search_params_[i]]
             ELSE Append(search_params_, Item(param_name, param))
      ELSE search_params_

\* search_params = {}; if offset: search_params["offset"] = offset; ... the same
\* test and assignment for each option, in this order
RECURSIVE main_search_params_from(_, _, _)
main_search_params_from(search_params_, o, i) ==
    IF i > Len(SearchOptionNames) THEN search_params_
    ELSE main_search_params_from(
             set_search_param(search_params_, o[SearchOptionNames[i]],
                              ParamName(SearchOptionNames[i])), o, i + 1)

main_search_params(o) == main_search_params_from(<<>>, o, 1)

(***************************************************************************)
(* What the server keeps for the index: its documents, in the order they   *)
(* were first added, and its settings.  A write that the server accepted   *)
(* is a task; the task's effect happens when the task succeeds.            *)
(***************************************************************************)
SettingNames ==
    <<"displayedAttributes", "distinctAttribute", "filterableAttributes", "rankingRules",
      "searchableAttributes", "sortableAttributes", "stopWords", "synonyms">>

DefaultSettings ==
    [n \in Range(SettingNames) |->
        CASE n \in {"displayedAttributes", "searchableAttributes"} -> PyList(<<PyStr("*")>>)
          [] n = "distinctAttribute" -> PyNone
          [] n = "rankingRules" -> PyList(<<PyStr("words"), PyStr("typo")>>)
          [] n = "synonyms" -> EmptyDict
          [] OTHER -> EmptyList]

\* the setting that an update_ / reset_ / get_ method of the client is about
OpSetting(op) ==
    CASE op \in {"update_displayed_attributes", "reset_displayed_attributes",
                 "get_displayed_attributes"} -> "displayedAttributes"
      [] op \in {"update_distinct_attribute", "reset_distinct_attribute",
                 "get_distinct_attribute"} -> "distinctAttribute"
      [] op \in {"reset_filterable_attributes", "get_filterable_attributes"}
           -> "filterableAttributes"
      [] op \in {"update_ranking_rules", "reset_ranking_rules", "get_ranking_rules"}
           -> "rankingRules"
      [] op \in {"update_searchable_attributes", "reset_searchable_attributes",
                 "get_searchable_attributes"} -> "searchableAttributes"
      [] op \in {"update_sortable_attributes", "reset_sortable_attributes",
                 "get_sortable_attributes"} -> "sortableAttributes"
      [] op \in {"update_stop_words", "reset_stop_words", "get_stop_words"} -> "stopWords"
      [] op \in {"update_synonyms", "reset_synonyms", "get_synonyms"} -> "synonyms"
      [] OTHER -> ""

UpdateOps ==
    {"update_displayed_attributes", "update_distinct_attribute", "update_ranking_rules",
     "update_searchable_attributes", "update_sortable_attributes", "update_stop_words",
     "update_synonyms"}
ResetOps ==
    {"reset_displayed_attributes", "reset_distinct_attribute", "reset_filterable_attributes",
     "reset_ranking_rules", "reset_searchable_attributes", "reset_sortable_attributes",
     "reset_stop_words", "reset_synonyms"}

\* the document id given to delete / delete-multiple in the sample runs
SampleDocId == PyInt("1")

OldDocument == PyDict(<<Item("id", PyInt("1")), Item("title", PyStr("old"))>>)

EmptyStore == [documents |-> <<>>, settings |-> DefaultSettings]
Stores == {EmptyStore, [EmptyStore EXCEPT !.documents = <<OldDocument>>]}

Field(doc, key) ==
    IF \E i \in DOMAIN doc.items : doc.items[i].key = key
      THEN doc.items[CHOOSE i \in DOMAIN doc.items : doc.items[i].key = key].value
      ELSE PyNone

\* a document put in the place of the one with its id, or added at the end
AddDocument(docs, d) ==
    IF \E i \in DOMAIN docs : Field(docs[i], "id") = Field(d, "id")
      THEN [i \in DOMAIN docs |-> IF Field(docs[i], "id") = Field(d, "id") THEN d ELSE docs[i]]
      ELSE Append(docs, d)

\* the fields of a document laid over those of the one with its id
MergeDocument(docs, d) ==
    IF \E i \in DOMAIN docs : Field(docs[i], "id") = Field(d, "id")
      THEN [i \in DOMAIN docs |->
              IF Field(docs[i], "id") = Field(d, "id")
                THEN PyDict([j \in DOMAIN docs[i].items |->
                               IF \E h \in DOMAIN d.items : d.items[h].key = docs[i].items[j].key
                                 THEN Item(docs[i].items[j].key, Field(d, docs[i].items[j].key))
                                 ELSE docs[i].items[j]]
                            \o SelectSeq(d.items,
                                  LAMBDA it : \A j \in DOMAIN docs[i].items :
                                                 docs[i].items[j].key # it.key))
                ELSE docs[i]]
      ELSE Append(docs, d)

\* the documents of a payload: a list of them, or a single one
PayloadDocuments(v) == IF v.t = "list" THEN v.items ELSE <<v>>

RECURSIVE AddDocuments(_, _, _)
AddDocuments(docs, new, merge) ==
    IF new = <<>> THEN docs
    ELSE AddDocuments(IF merge THEN MergeDocument(docs, new[1]) ELSE AddDocument(docs, new[1]),
                      Tail(new), merge)

RECURSIVE SetSettings(_, _)
SetSettings(settings, items) ==
    IF items = <<>> THEN settings
    ELSE SetSettings([settings EXCEPT ![items[1].key] = items[1].value], Tail(items))

\* the server's operation behind a client method the document handlers submit:
\* the add_ methods add or replace whole documents, the update_ methods add or
\* update the fields given
ServerOperation(op) ==
    CASE op \in {"add_documents", "add_documents_raw", "add_documents_in_batches"}
           -> "add_or_replace_documents"
      [] op \in {"update_documents", "update_documents_in_batches"}
           -> "add_or_update_documents"
      [] OTHER -> op

\* what a task does when it succeeds
TaskEffect(kind, name, value) == [kind |-> kind, name |-> name, value |-> value]
NoEffect == TaskEffect("none", "", PyNone)

\* the effect of the write a client method submits; the documents of a file and of
\* batches are not followed
Effect(op, value) ==
    CASE op = "add_documents" -> TaskEffect("add", "", value)
      [] op = "update_documents" -> TaskEffect("merge", "", value)
      [] op = "delete_all_documents" -> TaskEffect("delete_all", "", PyNone)
      [] op \in {"delete_document", "delete_documents"} -> TaskEffect("delete", "", SampleDocId)
      [] op = "update_settings" -> TaskEffect("settings", "", value)
      [] op = "reset_settings" -> TaskEffect("reset_settings", "", PyNone)
      [] op \in ResetOps -> TaskEffect("reset", OpSetting(op), PyNone)
      [] op \in UpdateOps -> TaskEffect("set", OpSetting(op), value)
      [] OTHER -> NoEffect

Apply(st, e) ==
    CASE e.kind = "add" ->
           [st EXCEPT !.documents = AddDocuments(st.documents, PayloadDocuments(e.value), FALSE)]
      [] e.kind = "merge" ->
           [st EXCEPT !.documents = AddDocuments(st.documents, PayloadDocuments(e.value), TRUE)]
      [] e.kind = "delete_all" -> [st EXCEPT !.documents = <<>>]
      [] e.kind = "delete" ->
           [st EXCEPT !.documents = SelectSeq(st.documents,
                                              LAMBDA d : Field(d, "id") # e.value)]
      [] e.kind = "settings" -> [st EXCEPT !.settings = SetSettings(st.settings, e.value.items)]
      [] e.kind = "reset_settings" -> [st EXCEPT !.settings = DefaultSettings]
      [] e.kind = "set" -> [st EXCEPT !.settings[e.name] = e.value]
      [] e.kind = "reset" -> [st EXCEPT !.settings[e.name] = DefaultSettings[e.name]]
      [] OTHER -> st

\* what a get_ method of the client returns
Read(st, op) ==
    CASE op = "get_documents" -> PyList(st.documents)
      [] op = "get_settings" ->
           PyDict([i \in 1..Len(SettingNames) |->
                     Item(SettingNames[i], st.settings[SettingNames[i]])])
      [] OpSetting(op) # "" -> st.settings[OpSetting(op)]
      [] OTHER -> PyDict(<<Item("result", PyStr(op))>>)

NewTask == [status |-> "enqueued", error |-> None, effect |-> NoEffect]

\* the values given to the commands that update one setting
RequestValues(c) ==
    IF c.request = "update_distinct_attribute" THEN {PyStr("genre")}
    ELSE IF c.request \in UpdateOps \ {"update_synonyms"}
      THEN {PyList(<<PyStr("title")>>), PyList(<<PyStr("title"), PyStr("genre")>>)}
    ELSE {PyNone}

\* what may be given for --distinct-attribute and --stop-words of update-settings
DistinctAttributeOptions == {PyNone, PyStr(""), PyStr("genre")}
StopWordsOptions == {PyNone, PyList(<<PyStr("the")>>)}

\* what request_method returned, and the record of a task, as Python values
UpdateValue(u) ==
    IF u.isList THEN PyList([i \in DOMAIN u.uids |->
                               PyDict(<<Item("uid", PyInt(ToString(u.uids[i])))>>)])
                ELSE PyDict(<<Item("uid", PyInt(ToString(u.uids[1])))>>)

TaskValue(r) ==
    PyDict(<<Item("uid", PyInt(ToString(r.uid))), Item("status", PyStr(r.status)),
             Item("error", IF r.error = None THEN PyNone
                           ELSE PyDict(<<Item("code", PyStr(r.error))>>))>>)

\* the flags of the command line and the two environment variables
Given(uf, ue, kf, ke) == [url_flag |-> uf, url_env |-> ue, key_flag |-> kf, key_env |-> ke]
NoGiven == Given(None, None, None, None)

(***************************************************************************)
(* State.                                                                  *)
(***************************************************************************)
VARIABLES
    pc,            \* where the invocation is: idle, run (handler steps), pr_* , done
    cmd,           \* the handler being run
    ip,            \* index of the handler's next step
    args,          \* the handler's parameters, as typer passes them
    client,        \* whether a Client object was constructed
    fileOpened,    \* whether the file argument was opened
    content_type,  \* content type chosen for the file
    out,           \* what was printed, in order
    exitCode,      \* -1 while running, then the process exit status
    raised,        \* the exception that ended the command, or "none"
    calls,         \* the calls made so far, in order
    apiError,      \* the last API error the server answered with
    parseFailed,   \* whether json.loads raised JSONDecodeError
    tasks,         \* the server's task records; task uid u is tasks[u + 1]
    update,        \* process_request: what request_method returned
    k,             \* process_request: position in the list of tasks
    response,      \* process_request: what wait_for_task returned
    timeout_in_ms, \* wait_for_task: its timeout
    elapsed,       \* wait_for_task: time spent in the current call
    links,         \* build_tree: the list of links it was called with
    tree,          \* build_tree: the tree it returned
    screen,        \* what print_panel_or_raw rendered on the console, in order
    sample,        \* the data of the last print_panel_or_raw call
    store,         \* the server: the documents and the settings of the index
    payload,       \* the value the handler passes to the request method
    given,         \* the flags of the command line and the environment variables
    connection,    \* the url and the key the Client was constructed with
    raisedMessage, \* the message of the exception check_index_status raised
    options,       \* search: the options of the command line
    search_params, \* search: the dict the handler builds from them
    retrieved      \* what the retrieve method returned

vars == <<pc, cmd, ip, args, client, fileOpened, content_type, out, exitCode, raised,
          calls, apiError, parseFailed, tasks, update, k, response, timeout_in_ms, elapsed,
          links, tree, screen, sample, store, payload, retrieved, given, connection, raisedMessage,
          options, search_params>>

\* what the command handlers and process_request never touch
extVars == <<links, tree, screen, sample, store, payload, retrieved, given, connection, raisedMessage,
          options, search_params>>

prVars == <<update, k, response, timeout_in_ms, elapsed>>

Call(fn, op, uid, timeout) == [fn |-> fn, op |-> op, uid |-> uid, timeout |-> timeout]

Init ==
    /\ pc = "idle"
    /\ cmd = NoCmd
    /\ ip = 1
    /\ args = NoArgs
    /\ client = FALSE
    /\ fileOpened = FALSE
    /\ content_type = None
    /\ out = <<>>
    /\ exitCode = -1
    /\ raised = "none"
    /\ calls = <<>>
    /\ apiError = NoApiError
    /\ parseFailed = FALSE
    /\ tasks = <<>>
    /\ update = NoUpdate
    /\ k = 1
    /\ response = NoResponse
    /\ timeout_in_ms = 0
    /\ elapsed = 0
    /\ links = <<>>
    /\ tree = <<>>
    /\ screen = <<>>
    /\ sample = PyNone
    /\ store = EmptyStore
    /\ payload = PyNone
    /\ retrieved = PyNone
    /\ given = NoGiven
    /\ connection = NoConnection
    /\ raisedMessage = <<>>
    /\ options = NoOptions
    /\ search_params = <<>>

CurStep == IF pc = "run" /\ ip <= Len(cmd.steps) THEN cmd.steps[ip] ELSE "none"

HasStep(c, step) == \E i \in DOMAIN c.steps : c.steps[i] = step

\* the process ends: sys.exit(status), a normal return (status 0) or an uncaught
\* exception (status 1)
Ends(status, exc) ==
    /\ pc' = "done"
    /\ exitCode' = status
    /\ raised' = exc

Continues ==
    /\ pc' = pc
    /\ exitCode' = exitCode
    /\ raised' = raised

(***************************************************************************)
(* typer parses the command line and calls the handler.                    *)
(***************************************************************************)
\* what the command line of a command can hold: --wait and --raw where the handler has
\* them, a JSON string where it takes one (of the shape the server's route takes), a file
\* where it opens one, the settings options of update-settings, and the documents the
\* index held before a command about documents
HasKeyOption(c) == ~HasStep(c, "health_check_url")

KeyFlagsGiven(c) == IF HasKeyOption(c) THEN KeyFlags ELSE {None}

OptionsGiven(c) == IF HasStep(c, "process_request") THEN BOOLEAN ELSE {FALSE}

JsonOfRoute(c) ==
    {j \in JsonStrings : j \in ValidJson =>
        (json_loads(j).value.t = "dict"
           <=> c.request \in {"update_synonyms", "update_settings"})}

JsonGiven(c) ==
    IF HasStep(c, "json_loads") THEN JsonOfRoute(c)
    ELSE IF HasStep(c, "settings") THEN JsonOfRoute(c) \cup {None}
    ELSE {None}

SuffixesGiven(c) == IF HasStep(c, "open") THEN Suffixes ELSE {""}

EncodingsGiven(c) == IF HasStep(c, "open") THEN BOOLEAN ELSE {TRUE}

DistinctAttributeGiven(c) ==
    IF HasStep(c, "settings") THEN DistinctAttributeOptions ELSE {PyNone}

StopWordsGiven(c) == IF HasStep(c, "settings") THEN StopWordsOptions ELSE {PyNone}

StoresBefore(c) ==
    IF HasStep(c, "process_request") /\ c.retrieve = "get_documents" THEN Stores
    ELSE {EmptyStore}

Invoke ==
    /\ pc = "idle"
    /\ \E c \in Commands :
        \E index \in IndexNames,
           uf \in UrlFlags, ue \in UrlEnvs, kf \in KeyFlagsGiven(c), ke \in KeyEnvs,
           wait \in OptionsGiven(c), raw \in OptionsGiven(c),
           json \in JsonGiven(c), suffix \in SuffixesGiven(c), encodes \in EncodingsGiven(c),
           value \in RequestValues(c),
           distinct_attribute \in DistinctAttributeGiven(c),
           stop_words \in StopWordsGiven(c), st \in StoresBefore(c) :
        /\ payload' = value
        /\ store' = st
        /\ cmd' = c
        /\ given' = Given(uf, ue, kf, ke)
        /\ args' = [index |-> index, url |-> Effective(uf, ue),
                    master_key |-> IF HasKeyOption(c) THEN Effective(kf, ke) ELSE None,
                    wait |-> wait, raw |-> raw,
                    json |-> json, suffix |-> suffix, encodes |-> encodes,
                    distinct_attribute |-> distinct_attribute, stop_words |-> stop_words]
    /\ pc' = "run"
    /\ ip' = 1
    /\ UNCHANGED <<client, fileOpened, content_type, out, exitCode, raised, calls,
                   apiError, parseFailed, tasks, prVars>>
    /\ UNCHANGED <<connection, raisedMessage, options, search_params, links, tree, screen, sample, retrieved>>

(***************************************************************************)
(* Handler steps before the request.                                       *)
(***************************************************************************)
\* client = create_client(url, master_key)
Step_create_client ==
    /\ CurStep = "create_client"
    /\ LET r == create_client(args.url, args.master_key) IN
        /\ calls' = Append(calls, Call("create_client", "", 0, 0))
        /\ out' = out \o r.printed
        /\ client' = r.client
        /\ connection' = IF r.client THEN Client(args.url, args.master_key) ELSE connection
        /\ IF r.exits THEN Ends(r.status, "none") /\ ip' = ip
                      ELSE Continues /\ ip' = ip + 1
    /\ UNCHANGED <<cmd, args, fileOpened, content_type, apiError, parseFailed, tasks,
                   prVars>>
    /\ UNCHANGED <<given, raisedMessage, options, search_params, links, tree, screen, sample, store, payload, retrieved>>

\* verify_url_and_master_key(console, url, master_key)
Step_verify_url_and_master_key ==
    /\ CurStep = "verify_url_and_master_key"
    /\ LET r == verify_url_and_master_key(args.url, args.master_key) IN
        /\ calls' = Append(calls, Call("verify_url_and_master_key", "", 0, 0))
        /\ out' = out \o r.printed
        /\ IF r.exits THEN Ends(r.status, "none") /\ ip' = ip
                      ELSE Continues /\ ip' = ip + 1
    /\ UNCHANGED <<cmd, args, client, fileOpened, content_type, apiError, parseFailed,
                   tasks, prVars>>
    /\ UNCHANGED extVars

\* Client(url, master_key)
Step_Client ==
    /\ CurStep = "Client"
    /\ calls' = Append(calls, Call("Client", "", 0, 0))
    /\ client' = TRUE
    /\ connection' = Client(args.url, args.master_key)
    /\ ip' = ip + 1
    /\ UNCHANGED <<pc, cmd, args, fileOpened, content_type, out, exitCode, raised,
                   apiError, parseFailed, tasks, prVars>>
    /\ UNCHANGED <<given, raisedMessage, options, search_params, links, tree, screen, sample, store, payload, retrieved>>

\* health: if not url: ... sys.exit()
Step_health_check_url ==
    /\ CurStep = "health_check_url"
    /\ LET r == main_health_check_url(args.url) IN
        /\ out' = out \o r.printed
        /\ IF r.exits THEN Ends(r.status, "none") /\ ip' = ip
                      ELSE Continues /\ ip' = ip + 1
    /\ UNCHANGED <<cmd, args, client, fileOpened, content_type, calls, apiError,
                   parseFailed, tasks, prVars>>
    /\ UNCHANGED extVars

\* health: client = Client(url)
Step_Client_url ==
    /\ CurStep = "Client_url"
    /\ calls' = Append(calls, Call("Client", "", 0, 0))
    /\ client' = TRUE
    /\ connection' = Client(args.url, None)
    /\ ip' = ip + 1
    /\ UNCHANGED <<pc, cmd, args, fileOpened, content_type, out, exitCode, raised,
                   apiError, parseFailed, tasks, prVars>>
    /\ UNCHANGED <<given, raisedMessage, options, search_params, links, tree, screen, sample, store, payload, retrieved>>

\* content_type = validate_file_type_and_set_content_type(console, file_path)
Step_validate_file ==
    /\ CurStep = "validate_file"
    /\ LET r == validate_file_type_and_set_content_type(args.suffix) IN
        /\ calls' = Append(calls, Call("validate_file_type_and_set_content_type", "", 0, 0))
        /\ out' = out \o r.printed
        /\ content_type' = r.content_type
        /\ IF r.exits THEN Ends(r.status, "none") /\ ip' = ip
                      ELSE Continues /\ ip' = ip + 1
    /\ UNCHANGED <<cmd, args, client, fileOpened, apiError, parseFailed, tasks, prVars>>
    /\ UNCHANGED extVars

\* main.py: if file_type not in (".json", ".csv", ".ndjson"): print; sys.exit()
Step_check_file_type ==
    /\ CurStep = "check_file_type"
    /\ LET r == main_check_file_type(args.suffix) IN
        /\ calls' = Append(calls, Call("check_file_type", "", 0, 0))
        /\ out' = out \o r.printed
        /\ IF r.exits THEN Ends(r.status, "none") /\ ip' = ip
                      ELSE Continues /\ ip' = ip + 1
    /\ UNCHANGED <<cmd, args, client, fileOpened, content_type, apiError, parseFailed,
                   tasks, prVars>>
    /\ UNCHANGED extVars

\* with open(file_path, "r") as f: documents = f.read().encode(encoding)
\* (a text that does not decode or encode raises, and nothing catches it)
Step_open ==
    /\ CurStep = "open"
    /\ calls' = Append(calls, Call("open", "", 0, 0))
    /\ fileOpened' = TRUE
    /\ IF args.encodes THEN Continues /\ ip' = ip + 1
                       ELSE Ends(1, "UnicodeError") /\ ip' = ip
    /\ UNCHANGED <<cmd, args, client, content_type, out, apiError, parseFailed, tasks,
                   prVars>>
    /\ UNCHANGED extVars

\* main.py: the if/elif chain that sets content_type
Step_content_type ==
    /\ CurStep = "content_type"
    /\ content_type' = main_content_type(args.suffix)
    /\ ip' = ip + 1
    /\ UNCHANGED <<pc, cmd, args, client, fileOpened, out, exitCode, raised, calls,
                   apiError, parseFailed, tasks, prVars>>
    /\ UNCHANGED extVars

\* what the handler does with JSONDecodeError: the except block prints the parse
\* error message and the handler returns; without one the exception escapes
JsonDecodeErrorRaised ==
    /\ parseFailed' = TRUE
    /\ ip' = ip
    /\ IF cmd.catches = "JSONDecodeError"
         THEN /\ out' = Append(out, print_json_parse_error_message(args.json))
              /\ Ends(0, "none")
         ELSE /\ out' = out
              /\ Ends(1, "JSONDecodeError")

\* json.loads(documents) / json.loads(synonyms), evaluated while the arguments of
\* process_request are built
Step_json_loads ==
    /\ CurStep = "json_loads"
    /\ calls' = Append(calls, Call("json.loads", "", 0, 0))
    /\ IF json_loads(args.json).ok
         THEN /\ Continues
              /\ ip' = ip + 1
              /\ UNCHANGED <<out, parseFailed>>
         ELSE JsonDecodeErrorRaised
    /\ payload' = IF json_loads(args.json).ok THEN json_loads(args.json).value ELSE payload
    /\ UNCHANGED <<cmd, args, client, fileOpened, content_type, apiError, tasks, prVars>>
    /\ UNCHANGED <<given, connection, raisedMessage, options, search_params, links, tree, screen, sample, store, retrieved>>

\* faulty variant: the stop words are left out of the settings sent
settings_dict_without_stop_words(a) ==
    PyDict((IF PyTruthy(a.distinct_attribute)
              THEN <<Item("distinctAttribute", a.distinct_attribute)>> ELSE <<>>)
           \o (IF Truthy(a.json) THEN <<Item("synonyms", json_loads(a.json).value)>>
                                 ELSE <<>>))

\* update_settings: the settings dict, of the options that are truthy (of the eight
\* options, --distinct-attribute, --stop-words and --synonyms are followed)
settings_dict(a) ==
    PyDict((IF PyTruthy(a.distinct_attribute)
              THEN <<Item("distinctAttribute", a.distinct_attribute)>> ELSE <<>>)
           \o (IF PyTruthy(a.stop_words) THEN <<Item("stopWords", a.stop_words)>> ELSE <<>>)
           \o (IF Truthy(a.json) THEN <<Item("synonyms", json_loads(a.json).value)>>
                                 ELSE <<>>))

\* update_settings: the settings dict; if synonyms: settings["synonyms"] = json.loads(synonyms)
Step_settings ==
    /\ CurStep = "settings"
    /\ IF Truthy(args.json)
         THEN /\ calls' = Append(calls, Call("json.loads", "", 0, 0))
              /\ IF json_loads(args.json).ok
                   THEN /\ Continues
                        /\ ip' = ip + 1
                        /\ UNCHANGED <<out, parseFailed>>
                   ELSE JsonDecodeErrorRaised
         ELSE /\ Continues
              /\ ip' = ip + 1
              /\ UNCHANGED <<out, parseFailed, calls>>
    /\ payload' = IF Truthy(args.json) /\ ~json_loads(args.json).ok THEN payload
                  ELSE settings_dict(args)
    /\ UNCHANGED <<cmd, args, client, fileOpened, content_type, apiError, tasks, prVars>>
    /\ UNCHANGED <<given, connection, raisedMessage, options, search_params, links, tree, screen, sample, store, retrieved>>

(***************************************************************************)
(* Requests.                                                               *)
(***************************************************************************)
ExceptBlock(handler, code, message, index) ==
    IF handler = "index_not_found" THEN except_index_not_found(code, message, index)
    ELSE IF handler = "get_index" THEN except_get_index(code, message, index)
    ELSE IF handler = "create_index" THEN except_create_index(code, message, index)
    ELSE IF handler = "update_index" THEN except_update_index(code, message, index)
    ELSE [handled |-> FALSE, printed |-> <<>>]

\* the server answers a call with MeiliSearchApiError(code, message): the handler's
\* except block prints and returns, or the exception escapes
ApiErrorRaised(code, message) ==
    LET r == IF cmd.catches = "MeiliSearchApiError"
               THEN ExceptBlock(cmd.handler, code, message, args.index)
               ELSE [handled |-> FALSE, printed |-> <<>>]
    IN  /\ apiError' = [code |-> code, message |-> message]
        /\ out' = out \o r.printed
        /\ IF r.handled THEN Ends(0, "none") ELSE Ends(1, "MeiliSearchApiError")

ResultData(op) == [what |-> op, uids |-> <<>>, status |-> "", error |-> ""]

\* how a handler that prints the answer itself shows it
Show(c, index) ==
    IF c.show = "panel" THEN PanelItem(c.title, ResultData(c.request))
    ELSE IF c.show = "deleted"
      THEN PlainItem(<<"Index", index, "successfully deleted">>, NoData)
    ELSE PlainItem(<<>>, ResultData(c.request))

\* a handler that calls the client method itself and prints the answer
Step_request ==
    /\ CurStep = "request"
    /\ calls' = Append(calls, Call("request", cmd.request, 0, 0))
    /\ ip' = ip
    /\ \/ /\ out' = Append(out, Show(cmd, args.index))
          /\ Ends(0, "none")
          /\ UNCHANGED apiError
       \/ \E code \in ServerErrors(cmd.request), message \in ServerMessages(args.index) :
            ApiErrorRaised(code, message)
    /\ UNCHANGED <<cmd, args, client, fileOpened, content_type, parseFailed, tasks, prVars>>
    /\ UNCHANGED extVars


(***************************************************************************)
(* process_request                                                         *)
(***************************************************************************)
\* faulty variant: the timeout argument left to the client library's default
timeout_in_ms_omitted == 600000 \div 120

\* timeout_in_ms of the two wait_for_task calls
timeout_in_ms_single == 600000
timeout_in_ms_batch == 600000

UpdateData(u) == [what |-> "update", uids |-> u.uids, status |-> "", error |-> ""]
TaskData(r) == [what |-> "task", uids |-> <<r.uid>>, status |-> r.status,
                error |-> r.error]

\* update = request_method(); without wait: print_panel_or_raw(raw, update, title)
process_request_submit(wait) ==
    /\ CurStep = "process_request"
    /\ calls' = Append(calls, Call("request_method", cmd.request, 0, 0))
    /\ ip' = ip
    /\ \/ \E n \in 0..MaxBatches :
            /\ IF cmd.returnsList THEN TRUE ELSE n = 1
            /\ LET u == [isList |-> cmd.returnsList,
                         uids |-> [i \in 1..n |-> Len(tasks) + i - 1]]
               IN  /\ tasks' = tasks \o [i \in 1..n |->
                                          [NewTask EXCEPT !.effect = Effect(cmd.request, payload)]]
                   /\ update' = u
                   /\ IF wait
                        THEN /\ pc' = IF u.isList /\ n = 0 THEN "pr_retrieve" ELSE "pr_wait"
                             /\ UNCHANGED <<out, exitCode, raised, screen>>
                        ELSE /\ out' = Append(out, print_panel_or_raw(args.raw,
                                                    UpdateData(u), cmd.title))
                             /\ screen' = Append(screen, print_panel_or_raw_screen(args.raw,
                                                    UpdateValue(u), cmd.title))
                             /\ Ends(0, "none")
            /\ UNCHANGED apiError
       \/ /\ \E code \in ServerErrors(cmd.request),
               message \in ServerMessages(args.index) : ApiErrorRaised(code, message)
          /\ UNCHANGED <<tasks, update, screen>>
    /\ k' = 1
    /\ UNCHANGED <<cmd, args, client, fileOpened, content_type, parseFailed, response,
                   timeout_in_ms, elapsed>>
    /\ UNCHANGED <<given, connection, raisedMessage, options, search_params, links, tree, sample, store, payload, retrieved>>

\* faulty variant: the wait branch is taken whatever the flag says
PR_request_always_waits == process_request_submit(TRUE)

PR_request == process_request_submit(args.wait)

\* response = index.wait_for_task(uid, timeout_in_ms=600000): the call
PR_wait_for_task ==
    /\ pc = "pr_wait"
    /\ LET t == IF update.isList THEN timeout_in_ms_batch ELSE timeout_in_ms_single IN
        /\ calls' = Append(calls, Call("wait_for_task", "", update.uids[k], t))
        /\ timeout_in_ms' = t
    /\ elapsed' = 0
    /\ pc' = "pr_poll"
    /\ UNCHANGED <<cmd, ip, args, client, fileOpened, content_type, out, exitCode, raised,
                   apiError, parseFailed, tasks, update, k, response>>
    /\ UNCHANGED extVars

\* faulty variant: when the time is up the submission is made again
WaitPoll_resubmits ==
    /\ pc = "pr_poll"
    /\ LET uid == update.uids[k]
           task == tasks[uid + 1]
       IN  IF elapsed >= timeout_in_ms
             THEN /\ pc' = "run"
                  /\ UNCHANGED <<response, elapsed, exitCode, raised>>
           ELSE IF task.status \notin PendingStatuses
             THEN /\ response' = [uid |-> uid, status |-> task.status, error |-> task.error]
                  /\ pc' = IF update.isList THEN "pr_failed_check"
                                            ELSE "pr_check_index_status"
                  /\ UNCHANGED <<exitCode, raised, elapsed>>
           ELSE /\ elapsed' = elapsed + TickMs
                /\ UNCHANGED <<pc, exitCode, raised, response>>
    /\ UNCHANGED <<cmd, ip, args, client, fileOpened, content_type, out, calls, apiError,
                   parseFailed, tasks, update, k, timeout_in_ms>>
    /\ UNCHANGED extVars

\* faulty variant: the time slept is not added up, so the wait never runs out
WaitPoll_clock_stands_still ==
    /\ pc = "pr_poll"
    /\ LET uid == update.uids[k]
           task == tasks[uid + 1]
       IN  IF task.status \notin PendingStatuses
             THEN /\ response' = [uid |-> uid, status |-> task.status, error |-> task.error]
                  /\ pc' = IF update.isList THEN "pr_failed_check"
                                            ELSE "pr_check_index_status"
                  /\ UNCHANGED <<exitCode, raised, elapsed>>
           ELSE UNCHANGED <<pc, exitCode, raised, response, elapsed>>
    /\ UNCHANGED <<cmd, ip, args, client, fileOpened, content_type, out, calls, apiError,
                   parseFailed, tasks, update, k, timeout_in_ms>>
    /\ UNCHANGED extVars

\* wait_for_task: one round of its loop.  While the time is not up it reads the task;
\* a task that left enqueued/processing is returned, otherwise it sleeps; when the
\* time is up it raises MeiliSearchTimeoutError, which no handler catches.
WaitPoll ==
    /\ pc = "pr_poll"
    /\ LET uid == update.uids[k]
           task == tasks[uid + 1]
       IN  IF elapsed >= timeout_in_ms
             THEN /\ Ends(1, "MeiliSearchTimeoutError")
                  /\ UNCHANGED <<response, elapsed>>
           ELSE IF task.status \notin PendingStatuses
             THEN /\ response' = [uid |-> uid, status |-> task.status, error |-> task.error]
                  /\ pc' = IF update.isList THEN "pr_failed_check"
                                            ELSE "pr_check_index_status"
                  /\ UNCHANGED <<exitCode, raised, elapsed>>
           ELSE /\ elapsed' = elapsed + TickMs
                /\ UNCHANGED <<pc, exitCode, raised, response>>
    /\ UNCHANGED <<cmd, ip, args, client, fileOpened, content_type, out, calls, apiError,
                   parseFailed, tasks, update, k, timeout_in_ms>>
    /\ UNCHANGED extVars

\* check_index_status(index.config, index.uid, response["uid"]): reads the task again
PR_check_index_status ==
    /\ pc = "pr_check_index_status"
    /\ LET r == check_index_status(tasks[response.uid + 1].error, args.index) IN
        /\ calls' = Append(calls, Call("check_index_status", "", response.uid, 0))
        /\ out' = out \o r.printed
        /\ raisedMessage' = r.message
        /\ IF r.outcome = "return"
             THEN /\ pc' = "pr_failed_check"
                  /\ UNCHANGED <<exitCode, raised>>
             ELSE Ends(r.status, r.exc)
    /\ UNCHANGED <<cmd, ip, args, client, fileOpened, content_type, apiError, parseFailed,
                   tasks, prVars>>
    /\ UNCHANGED <<given, connection, options, search_params, links, tree, screen, sample, store, payload, retrieved>>

\* faulty variant: only the first task of a list is waited for
PR_failed_check_first_only ==
    /\ pc = "pr_failed_check"
    /\ IF response.status = "failed"
         THEN /\ out' = Append(out, print_panel_or_raw(args.raw, TaskData(response), "Failed"))
              /\ screen' = Append(screen, print_panel_or_raw_screen(args.raw,
                                                TaskValue(response), "Failed"))
              /\ Ends(1, "none")
         ELSE /\ out' = out
              /\ pc' = "pr_retrieve"
              /\ UNCHANGED <<exitCode, raised, screen>>
    /\ UNCHANGED <<cmd, ip, args, client, fileOpened, content_type, calls, apiError,
                   parseFailed, tasks, update, k, response, timeout_in_ms, elapsed>>
    /\ UNCHANGED <<given, connection, raisedMessage, options, search_params, links, tree, sample, store, payload, retrieved>>

\* faulty variant: after a failed task of a list the next task is waited for
PR_failed_check_keeps_waiting ==
    /\ pc = "pr_failed_check"
    /\ IF response.status = "failed" /\ ~(update.isList /\ k < Len(update.uids))
         THEN /\ out' = Append(out, print_panel_or_raw(args.raw, TaskData(response), "Failed"))
              /\ screen' = Append(screen, print_panel_or_raw_screen(args.raw,
                                                TaskValue(response), "Failed"))
              /\ Ends(1, "none")
              /\ k' = k
         ELSE /\ out' = out
              /\ IF update.isList /\ k < Len(update.uids)
                   THEN pc' = "pr_wait" /\ k' = k + 1
                   ELSE pc' = "pr_retrieve" /\ k' = k
              /\ UNCHANGED <<exitCode, raised, screen>>
    /\ UNCHANGED <<cmd, ip, args, client, fileOpened, content_type, calls, apiError,
                   parseFailed, tasks, update, response, timeout_in_ms, elapsed>>
    /\ UNCHANGED <<given, connection, raisedMessage, options, search_params, links, tree, sample, store, payload, retrieved>>

\* if response["status"] == "failed": print_panel_or_raw(raw, response, "Failed");
\* sys.exit(1) -- else on to the next task of the list, or to the retrieval
PR_failed_check ==
    /\ pc = "pr_failed_check"
    /\ IF response.status = "failed"
         THEN /\ out' = Append(out, print_panel_or_raw(args.raw, TaskData(response), "Failed"))
              /\ screen' = Append(screen, print_panel_or_raw_screen(args.raw,
                                                TaskValue(response), "Failed"))
              /\ Ends(1, "none")
              /\ k' = k
         ELSE /\ out' = out
              /\ IF update.isList /\ k < Len(update.uids)
                   THEN pc' = "pr_wait" /\ k' = k + 1
                   ELSE pc' = "pr_retrieve" /\ k' = k
              /\ UNCHANGED <<exitCode, raised, screen>>
    /\ UNCHANGED <<cmd, ip, args, client, fileOpened, content_type, calls, apiError,
                   parseFailed, tasks, update, response, timeout_in_ms, elapsed>>
    /\ UNCHANGED <<given, connection, raisedMessage, options, search_params, links, tree, sample, store, payload, retrieved>>

\* response = retrieve_method(); print_panel_or_raw(raw, response, title)
PR_retrieve ==
    /\ pc = "pr_retrieve"
    /\ calls' = Append(calls, Call("retrieve_method", cmd.retrieve, 0, 0))
    /\ \/ /\ out' = Append(out, print_panel_or_raw(args.raw, ResultData(cmd.retrieve),
                                                   cmd.title))
          /\ retrieved' = Read(store, cmd.retrieve)
          /\ screen' = Append(screen, print_panel_or_raw_screen(args.raw,
                                            Read(store, cmd.retrieve), cmd.title))
          /\ Ends(0, "none")
          /\ UNCHANGED apiError
       \/ /\ \E code \in ServerErrors(cmd.retrieve), message \in ServerMessages(args.index) :
               ApiErrorRaised(code, message)
          /\ UNCHANGED <<retrieved, screen>>
    /\ UNCHANGED <<cmd, ip, args, client, fileOpened, content_type, parseFailed, tasks,
                   prVars>>
    /\ UNCHANGED <<given, connection, raisedMessage, options, search_params, links, tree, sample, store, payload>>

(***************************************************************************)
(* A call of handle_meilisearch_api_error(error, index_name) from an       *)
(* except MeiliSearchApiError block.                                       *)
(***************************************************************************)
Call_handle_meilisearch_api_error ==
    /\ pc = "idle"
    /\ \E code \in ApiErrorCodes, index \in IndexNames :
        \E message \in ServerMessages(index) :
        LET r == handle_meilisearch_api_error(code, index) IN
        /\ cmd' = [NoCmd EXCEPT !.name = "handle_meilisearch_api_error",
                                !.catches = "MeiliSearchApiError",
                                !.handler = "handle_meilisearch_api_error"]
        /\ args' = [NoArgs EXCEPT !.index = index]
        /\ apiError' = [code |-> code, message |-> message]
        /\ calls' = Append(calls, Call("handle_meilisearch_api_error", "", 0, 0))
        /\ out' = out \o r.printed
        /\ IF r.handled THEN Ends(0, "none") ELSE Ends(1, "MeiliSearchApiError")
    /\ UNCHANGED <<ip, client, fileOpened, content_type, parseFailed, tasks, prVars>>
    /\ UNCHANGED extVars

(***************************************************************************)
(* The server processes the tasks it accepted.                             *)
(***************************************************************************)
ServerProgress ==
    /\ pc \notin {"idle", "done"}
    /\ \E i \in DOMAIN tasks :
        \/ /\ tasks[i].status = "enqueued"
           /\ tasks' = [tasks EXCEPT ![i].status = "processing"]
           /\ store' = store
        \/ /\ tasks[i].status = "processing"
           /\ tasks' = [tasks EXCEPT ![i].status = "succeeded"]
           /\ store' = Apply(store, tasks[i].effect)
        \/ /\ tasks[i].status = "processing"
           /\ \E e \in TaskErrorCodes :
                tasks' = [tasks EXCEPT ![i].status = "failed", ![i].error = e]
           /\ store' = store
    /\ UNCHANGED <<pc, cmd, ip, args, client, fileOpened, content_type, out, exitCode,
                   raised, calls, apiError, parseFailed, prVars>>
    /\ UNCHANGED <<given, connection, raisedMessage, options, search_params, links, tree, screen, sample, payload, retrieved>>

(***************************************************************************)
(* _docs.py: the documentation tree.                                       *)
(*                                                                         *)
(* A path section is its words, the character that joins them and its      *)
(* extension: how_to is <<"how", "to">> joined by "_", learn.html is       *)
(* <<"learn">> with extension ".html".  A link is the path after           *)
(* https://docs.meilisearch.com; a directory's link ends in "/".  A tree   *)
(* is the sequence of its nodes in the order they were added, the root     *)
(* first; a node is its label's name, its link and the position of its     *)
(* parent (0 for the root).  The empty sequence is "no tree".              *)
(***************************************************************************)
Section(words, sep, ext) == [words |-> words, sep |-> sep, ext |-> ext]

how_to == Section(<<"how", "to">>, "_", "")
how_to_html == Section(<<"how", "to">>, "-", ".html")
learn == Section(<<"learn">>, "", "")
advanced == Section(<<"advanced">>, "", "")

Sections == {how_to, how_to_html, learn, advanced}

\* "MeiliSearch Documentation", which split_link puts in the place of the host
RootSection == Section(<<"MeiliSearch", "Documentation">>, " ", "")
\* the empty string that split("/") leaves after a trailing "/"
EmptySection == Section(<<>>, "", "")

\* the paths of the sample sitemaps
DocPaths ==
    {<<>>}
      \cup {<<a>> : a \in Sections}
      \cup {<<a, b>> : a \in {how_to, learn}, b \in Sections}
      \cup {<<learn, how_to, c>> : c \in Sections}
      \cup {<<how_to, learn, c>> : c \in Sections}

\* the longest list of links
MaxLinks == 3

Listings == UNION {[1..n -> DocPaths] : n \in 0..MaxLinks}

EndsInSlash(path) == path = <<>> \/ path[Len(path)].ext = ""

\* split_link: the host replaced, the link split at "/", a last empty piece popped
split_link(link) ==
    LET split == <<RootSection>> \o link
                   \o (IF EndsInSlash(link) THEN <<EmptySection>> ELSE <<>>)
    IN  IF split[Len(split)] = EmptySection THEN SubSeq(split, 1, Len(split) - 1)
                                            ELSE split

\* format_section: a section without "_", "." and "-" is title-cased as it is; else
\* "_" becomes a space, then "-" becomes a space, then what follows the first "." is
\* dropped.  The result is the name shown in the label: title-cased words and what
\* joins them.
format_section(section) ==
    IF section.sep \notin {"_", "-"} /\ section.ext = ""
      THEN [title |-> section.words, sep |-> section.sep]
      ELSE LET underscored == IF section.sep = "_" THEN Section(section.words, " ", section.ext)
                                                   ELSE section
               hyphened == IF underscored.sep = "-"
                             THEN Section(underscored.words, " ", underscored.ext)
                             ELSE underscored
               dotted == IF hyphened.ext # "" THEN Section(hyphened.words, hyphened.sep, "")
                                              ELSE hyphened
           IN  [title |-> dotted.words, sep |-> dotted.sep]

TreeNode(name, link, parent) == [name |-> name, link |-> link, parent |-> parent]

\* node.children, in the order they were added
Children(t, node) ==
    SelectSeq([i \in 1..Len(t) |-> i], LAMBDA m : t[m].parent = node)

RECURSIVE build_branches_loop_always_adds(_, _, _, _, _, _)
\* faulty variant: the child is added without looking at the children already there
build_branches_loop_always_adds(t, nodes, i, branch, link, depth) ==
    IF nodes = <<>> THEN t
    ELSE LET node == nodes[Len(nodes)]
             rest == SubSeq(nodes, 1, Len(nodes) - 1)
         IN  IF branch = t[node].name THEN t
             ELSE IF i < depth
               THEN IF depth = i + 1
                      THEN Append(t, TreeNode(branch, link, node))
                      ELSE build_branches_loop_always_adds(t, rest \o Children(t, node), i + 1,
                                                           branch, link, depth)
             ELSE build_branches_loop_always_adds(t, rest, i + 1, branch, link, depth)

RECURSIVE build_branches_loop(_, _, _, _, _, _)
\* the while nodes: loop of build_branches; i counts the nodes popped so far
build_branches_loop(t, nodes, i, branch, link, depth) ==
    IF nodes = <<>> THEN t
    ELSE LET node == nodes[Len(nodes)]
             rest == SubSeq(nodes, 1, Len(nodes) - 1)
             branches == {t[m].name : m \in Range(Children(t, node))}
         IN  IF branch = t[node].name THEN t
             ELSE IF i < depth
               THEN IF depth = i + 1 /\ branch \notin branches
                      THEN Append(t, TreeNode(branch, link, node))
                      ELSE build_branches_loop(t, rest \o Children(t, node), i + 1,
                                               branch, link, depth)
             ELSE build_branches_loop(t, rest, i + 1, branch, link, depth)

build_branches(t, branch, link, depth) ==
    build_branches_loop(t, <<1>>, 0, branch, link, depth)

RECURSIVE build_tree_items(_, _, _, _)
\* for i, item in enumerate(split): ... (i counted from 0)
build_tree_items(t, split, i, link) ==
    IF i >= Len(split) THEN t
    ELSE LET formatted_item == format_section(split[i + 1])
             next == IF t # <<>> THEN build_branches(t, formatted_item, link, i)
                     ELSE IF i = 0 THEN <<TreeNode(formatted_item, link, 0)>>
                     ELSE t
         IN  build_tree_items(next, split, i + 1, link)

RECURSIVE build_tree_links(_, _, _)
\* for link in links: ...
build_tree_links(t, ls, j) ==
    IF j > Len(ls) THEN t
    ELSE build_tree_links(build_tree_items(t, split_link(ls[j]), 0, ls[j]), ls, j + 1)

\* faulty variant: an empty list of links gives a tree of the root alone
build_tree_root_only(ls) ==
    IF ls = <<>> THEN [raises |-> FALSE, tree |-> <<TreeNode(format_section(RootSection), <<>>, 0)>>]
    ELSE [raises |-> FALSE, tree |-> build_tree_links(<<>>, ls, 1)]

\* build_tree: the tree, or TreeBuildError when the loop left none
build_tree(ls) ==
    LET t == build_tree_links(<<>>, ls, 1)
    IN  IF t = <<>> THEN [raises |-> TRUE, tree |-> <<>>]
                    ELSE [raises |-> FALSE, tree |-> t]

\* a call of build_tree(links)
Call_build_tree ==
    /\ pc = "idle"
    /\ \E ls \in Listings :
        LET r == build_tree(ls) IN
        /\ links' = ls
        /\ tree' = r.tree
        /\ IF r.raises THEN Ends(1, "TreeBuildError") ELSE Ends(0, "none")
    /\ cmd' = [NoCmd EXCEPT !.name = "build_tree"]
    /\ calls' = Append(calls, Call("build_tree", "", 0, 0))
    /\ UNCHANGED <<ip, args, client, fileOpened, content_type, out, apiError, parseFailed,
                   tasks, prVars, screen, sample, store, payload, retrieved, given, connection, raisedMessage,
                   options, search_params>>

(***************************************************************************)
(* main.py, search: the whole handler.  It checks the url and the key,     *)
(* constructs the client, builds search_params, calls search with the      *)
(* query and the parameters (with the query alone when the dict is empty)  *)
(* and prints the answer; MeiliSearchApiError index_not_found is printed,  *)
(* any other is raised again.                                              *)
(***************************************************************************)
SearchCall(search_params_) ==
    Call("search", IF search_params_ # <<>> THEN "query, search_params" ELSE "query", 0, 0)

main_search ==
    /\ pc = "idle"
    /\ \E index \in IndexNames, url \in {None, "http://flag:7700"},
          master_key \in {None, "flagKey"}, o \in SearchOptions :
        LET v == verify_url_and_master_key(url, master_key)
            p == main_search_params(o)
        IN  /\ cmd' = [NoCmd EXCEPT !.name = "main.search",
                                     !.catches = "MeiliSearchApiError",
                                     !.handler = "index_not_found",
                                     !.request = "search"]
            /\ args' = [NoArgs EXCEPT !.index = index, !.url = url, !.master_key = master_key]
            /\ given' = Given(url, None, master_key, None)
            /\ options' = o
            /\ IF v.exits
                 THEN /\ calls' = Append(calls, Call("verify_url_and_master_key", "", 0, 0))
                      /\ out' = out \o v.printed
                      /\ Ends(v.status, "none")
                      /\ UNCHANGED <<client, connection, search_params, apiError>>
                 ELSE /\ calls' = calls \o <<Call("verify_url_and_master_key", "", 0, 0),
                                              Call("Client", "", 0, 0), SearchCall(p)>>
                      /\ client' = TRUE
                      /\ connection' = Client(url, master_key)
                      /\ search_params' = p
                      /\ \/ /\ out' = Append(out, PlainItem(<<>>, ResultData("search")))
                            /\ Ends(0, "none")
                            /\ UNCHANGED apiError
                         \/ \E code \in ServerErrors("search"),
                               message \in ServerMessages(index) :
                              LET r == except_index_not_found(code, message, index) IN
                              /\ apiError' = [code |-> code, message |-> message]
                              /\ out' = out \o r.printed
                              /\ IF r.handled THEN Ends(0, "none")
                                              ELSE Ends(1, "MeiliSearchApiError")
    /\ UNCHANGED <<ip, fileOpened, content_type, parseFailed, tasks, prVars, raisedMessage,
                   links, tree, screen, sample, store, payload, retrieved>>

(***************************************************************************)
(* A call of print_panel_or_raw(raw, data, panel_title).                   *)
(***************************************************************************)
PanelTitles == {"Add Documents Result", ""}

ValueData == [what |-> "value", uids |-> <<>>, status |-> "", error |-> ""]

Call_print_panel_or_raw ==
    /\ pc = "idle"
    /\ \E raw \in BOOLEAN, data \in SampleData, panel_title \in PanelTitles :
        /\ cmd' = [NoCmd EXCEPT !.name = "print_panel_or_raw", !.title = panel_title]
        /\ args' = [NoArgs EXCEPT !.raw = raw]
        /\ out' = Append(out, print_panel_or_raw(raw, ValueData, panel_title))
        /\ screen' = Append(screen, print_panel_or_raw_screen(raw, data, panel_title))
        /\ sample' = data
    /\ calls' = Append(calls, Call("print_panel_or_raw", "", 0, 0))
    /\ Ends(0, "none")
    /\ UNCHANGED <<ip, client, fileOpened, content_type, apiError, parseFailed, tasks,
                   prVars, links, tree, store, payload, retrieved, given, connection, raisedMessage,
                   options, search_params>>

CommandStep ==
    \/ Step_create_client
    \/ Step_verify_url_and_master_key
    \/ Step_Client
    \/ Step_health_check_url
    \/ Step_Client_url
    \/ Step_validate_file
    \/ Step_check_file_type
    \/ Step_open
    \/ Step_content_type
    \/ Step_json_loads
    \/ Step_settings
    \/ Step_request
    \/ PR_request
    \/ PR_wait_for_task
    \/ WaitPoll
    \/ PR_check_index_status
    \/ PR_failed_check
    \/ PR_retrieve

Next ==
    \/ Invoke
    \/ Call_handle_meilisearch_api_error
    \/ Call_build_tree
    \/ Call_print_panel_or_raw
    \/ main_search
    \/ CommandStep
    \/ ServerProgress

Spec == Init /\ [][Next]_vars

\* The handler is a sequential program that runs on until it returns, exits or
\* raises: its next step is taken.  Nothing is assumed of the server.
FairSpec == Spec /\ WF_vars(CommandStep)

(***************************************************************************)
(* Properties.                                                             *)
(***************************************************************************)
Called(fn) == \E i \in DOMAIN calls : calls[i].fn = fn

Finished == pc = "done"

\* a value is absent when neither the flag nor the environment gave a usable one
Absent(v) == ~Truthy(v)

UrlNames == {"--url", "MEILI_HTTP_ADDR"}
KeyNames == {"--master-key", "MEILI_MASTER_KEY"}

\* the option and variable names that the error lines printed so far mention
NamesPrinted ==
    UNION {Range(out[i].text) \cap (UrlNames \cup KeyNames) :
             i \in {j \in DOMAIN out : out[j].kind = "error"}}

\* the requests to the server and the steps of process_request
RequestCalls == {"request", "request_method", "retrieve_method", "wait_for_task",
                 "check_index_status"}

SubmittedTasks == {update.uids[i] + 1 : i \in DOMAIN update.uids}

ResultPrinted ==
    \E i \in DOMAIN out : out[i].data = ResultData(cmd.retrieve)

\* C3: with --wait, the retrieve method is called and its result printed only when
\* every task the submission returned is terminal and not failed; while a task is
\* enqueued or processing nothing is retrieved and no result is printed.
C3_RetrieveAfterAllTasks ==
    (HasStep(cmd, "process_request") /\ args.wait) =>
        /\ (Called("retrieve_method") \/ ResultPrinted) =>
              \A t \in SubmittedTasks : tasks[t].status = "succeeded"
        /\ ResultPrinted => Called("retrieve_method")

C3_Witness ==
    /\ args.wait /\ update.isList /\ Len(update.uids) = MaxBatches
    /\ Called("retrieve_method") /\ ResultPrinted
    /\ Finished /\ exitCode = 0

\* C4: without --wait, process_request never waits for a task, never calls
\* check_index_status and never calls the retrieve method; it calls the request
\* method once and, when that returns, prints the submission response (as JSON with
\* raw, else as the titled panel) and the command ends normally.
C4_NoWaitReturnsAtOnce ==
    (HasStep(cmd, "process_request") /\ ~args.wait) =>
        /\ \A i \in DOMAIN calls :
              calls[i].fn \notin {"wait_for_task", "check_index_status", "retrieve_method"}
        /\ Cardinality({i \in DOMAIN calls : calls[i].fn = "request_method"}) <= 1
        /\ pc \notin {"pr_wait", "pr_poll", "pr_check_index_status", "pr_failed_check",
                       "pr_retrieve"}
        /\ (Called("request_method") /\ apiError = NoApiError) =>
              /\ Finished /\ exitCode = 0 /\ raised = "none"
              /\ out = <<IF args.raw THEN JsonItem(UpdateData(update))
                                     ELSE PanelItem(cmd.title, UpdateData(update))>>

C4_Witness ==
    /\ cmd = documents_add_in_batches /\ ~args.wait
    /\ Called("request_method") /\ Len(update.uids) = MaxBatches
    /\ Finished /\ out = <<PanelItem(cmd.title, UpdateData(update))>>

\* C5 (as stated): whenever a waited-for task came back failed, the command prints
\* the failure record under the title Failed (or as raw JSON), exits with status 1
\* and never calls the retrieve method, in the single-task path and in the list path.
C5_FailedTaskReported ==
    (Finished /\ args.wait /\ response.status = "failed") =>
        /\ out # <<>>
        /\ out[Len(out)] = (IF args.raw THEN JsonItem(TaskData(response))
                                        ELSE PanelItem("Failed", TaskData(response)))
        /\ exitCode = 1
        /\ ~Called("retrieve_method")

\* C6: every wait_for_task call of process_request, for a single task and for each
\* task of a list, carries timeout_in_ms = 600000, and the polling of a task never
\* goes on past that time: a task that stays enqueued or processing ends the
\* command with MeiliSearchTimeoutError.
C6_WaitIsBounded ==
    /\ \A i \in DOMAIN calls :
          calls[i].fn = "wait_for_task" => calls[i].timeout = 600000
    /\ pc = "pr_poll" => (timeout_in_ms = 600000 /\ elapsed < 600000 + TickMs)
    /\ raised = "MeiliSearchTimeoutError" =>
          (elapsed >= 600000 /\ elapsed < 600000 + TickMs)

C6_Witness ==
    /\ update.isList /\ k = MaxBatches
    /\ raised = "MeiliSearchTimeoutError" /\ Finished
    /\ tasks[update.uids[k] + 1].status = "enqueued"
    /\ calls[Len(calls)] = Call("wait_for_task", "", update.uids[k], 600000)

\* the content type the claim assigns to a suffix, None for a suffix it rejects
ExpectedContentType(suffix) ==
    CASE suffix = ".csv" -> "text/csv"
      [] suffix = ".json" -> "application/json"
      [] suffix = ".ndjson" -> "application/x-ndjson"
      [] OTHER -> None

NotAcceptedLine(suffix) ==
    ErrorLine(<<suffix, "files are not accepted. Only .json, .csv, and .ndjson are accepted">>)

\* C7: once the file type was validated, the content type is text/csv for .csv,
\* application/json for .json and application/x-ndjson for .ndjson and nothing was
\* printed about the file; for any other suffix the message that <suffix> files are
\* not accepted was printed and the process has exited.  The same holds of the
\* suffix test and the content type chain written inline in main.py.
C7_ContentTypeOfSuffix ==
    /\ Called("validate_file_type_and_set_content_type") =>
          content_type = ExpectedContentType(args.suffix)
    /\ (HasStep(cmd, "content_type") /\ client) =>
          content_type = ExpectedContentType(args.suffix)
    /\ (Called("validate_file_type_and_set_content_type") \/ Called("check_file_type")) =>
          IF ExpectedContentType(args.suffix) = None
            THEN /\ Finished /\ exitCode = 0 /\ raised = "none"
                 /\ out = <<NotAcceptedLine(args.suffix)>>
            ELSE \A i \in DOMAIN out : out[i] # NotAcceptedLine(args.suffix)

C7_Witness ==
    /\ cmd = documents_update_from_file
    /\ args.suffix = ".ndjson" /\ content_type = "application/x-ndjson"
    /\ Called("request_method")

\* C8: in add-from-file and update-from-file a file with an unsupported extension is
\* rejected before anything else happens: whatever the URL and master key are, the
\* file is never opened, the URL/master-key check never runs, no client is built and
\* no request is made, and the only output is the message about the file type.
C8_ExtensionCheckedFirst ==
    (HasStep(cmd, "open") /\ args.suffix \notin {".csv", ".json", ".ndjson"}) =>
        /\ ~fileOpened /\ ~client
        /\ \A i \in DOMAIN calls :
              calls[i].fn \in {"validate_file_type_and_set_content_type", "check_file_type"}
        /\ calls # <<>> =>
              /\ Finished /\ exitCode = 0
              /\ out = <<ErrorLine(MsgNotAccepted(args.suffix))>>

C8_Witness ==
    /\ cmd = documents_add_from_file
    /\ args.suffix = ".xml"
    /\ Absent(args.url) /\ Absent(args.master_key)
    /\ Finished /\ out = <<ErrorLine(MsgNotAccepted(".xml"))>>

\* the commands that take a JSON string argument, and whether the one given parses
TakesJson == HasStep(cmd, "json_loads") \/ HasStep(cmd, "settings")
JsonUnparsable == args.json # None /\ ~json_loads(args.json).ok

ParseErrorPrinted ==
    \E i \in DOMAIN out : out[i] = ErrorLine(<<"Unable to parse", args.json, "as JSON">>)

\* C9 (as stated): when the JSON string argument of add, add-in-batches, update,
\* update-in-batches, update-synonyms or update-settings --synonyms cannot be
\* parsed, the command prints Unable to parse <input> as JSON, never invokes the
\* request method and ends without raising.
C9_UnparsableJsonReported ==
    (TakesJson /\ JsonUnparsable /\ Finished) =>
        /\ ParseErrorPrinted
        /\ ~Called("request_method")
        /\ raised = "none"

\* C9 (amended): when the URL and the master key are available and the JSON string
\* argument cannot be parsed -- for update-settings, a non-empty --synonyms; an empty
\* one is taken as not given -- the command prints Unable to parse <input> as JSON
\* as its only output, never invokes the request method and ends without raising,
\* with status 0.
C9_UnparsableJsonReportedWhenParsed ==
    /\ (TakesJson /\ JsonUnparsable /\ ~Absent(args.url) /\ ~Absent(args.master_key)
          /\ (HasStep(cmd, "settings") => args.json # "") /\ Finished) =>
            /\ parseFailed
            /\ out = <<ErrorLine(<<"Unable to parse", args.json, "as JSON">>)>>
    /\ parseFailed =>
            /\ Finished /\ exitCode = 0 /\ raised = "none"
            /\ ParseErrorPrinted
            /\ \A i \in DOMAIN calls : calls[i].fn \notin RequestCalls

C9_Witness ==
    /\ cmd = documents_add /\ args.json = "test"
    /\ ~Absent(args.url) /\ ~Absent(args.master_key)
    /\ parseFailed /\ Finished
    /\ out = <<ErrorLine(<<"Unable to parse", "test", "as JSON">>)>>

\* C10 (as stated): in a command that catches API errors, an error with a recognised
\* code ends the command without raising and with the short message: index_not_found
\* gives Index <name> not found, index_already_exists on index creation gives Index
\* <name> already exists, primary_key_already_present on index update gives Index
\* <name> already contains a primary key, cannot be reset.
C10_KnownApiErrorMessage ==
    (Finished /\ cmd.catches = "MeiliSearchApiError") =>
        /\ apiError.code = "index_not_found" =>
              /\ raised = "none"
              /\ out # <<>> /\ out[Len(out)] = ErrorLine(<<"Index", args.index, "not found">>)
        /\ (cmd.request = "create_index" /\ apiError.code = "index_already_exists") =>
              /\ raised = "none"
              /\ out # <<>>
              /\ out[Len(out)] = ErrorLine(<<"Index", args.index, "already exists">>)
        /\ (cmd.request = "update_index" /\ apiError.code = "primary_key_already_present") =>
              /\ raised = "none"
              /\ out # <<>>
              /\ out[Len(out)] = ErrorLine(<<"Index", args.index,
                                             "already contains a primary key, cannot be reset">>)

\* the error codes a command recognises: what its except block tests for
Recognises(c, code) ==
    /\ c.catches = "MeiliSearchApiError"
    /\ \/ code = "index_not_found"
             /\ c.handler \in {"index_not_found", "get_index", "update_index",
                               "handle_meilisearch_api_error"}
       \/ code = "index_already_exists" /\ c.handler = "create_index"
       \/ code = "primary_key_already_present" /\ c.handler = "update_index"

\* C11: when the server answers a command with an API error whose code the command
\* does not recognise, the command ends with that MeiliSearchApiError raised (exit
\* status 1), the error it carries being the one the server sent, and it has
\* printed nothing: no result, no success line, no short message.
C11_UnknownApiErrorPropagates ==
    (Finished /\ apiError # NoApiError /\ ~Recognises(cmd, apiError.code)) =>
        /\ raised = "MeiliSearchApiError"
        /\ exitCode = 1
        /\ out = <<>>

C11_Witness ==
    /\ cmd = main_delete_index
    /\ apiError.code = "invalid_request"
    /\ Finished /\ raised = "MeiliSearchApiError" /\ out = <<>>

\* C12: build_tree called with an empty list of links ends in TreeBuildError and
\* returns no tree.
C12_EmptyLinksRaise ==
    (cmd.name = "build_tree" /\ Finished /\ links = <<>>) =>
        /\ raised = "TreeBuildError"
        /\ exitCode = 1
        /\ tree = <<>>

C12_Witness ==
    /\ cmd.name = "build_tree" /\ Called("build_tree") /\ links = <<>>
    /\ Finished /\ raised = "TreeBuildError" /\ tree = <<>>

\* the non-empty path prefixes of the listing, and the listing's order on them
PathPrefixes(path) == {SubSeq(path, 1, n) : n \in 1..Len(path)}
AllPathPrefixes == UNION {PathPrefixes(links[j]) : j \in DOMAIN links}
HasPrefix(path, p) == Len(p) <= Len(path) /\ SubSeq(path, 1, Len(p)) = p
FirstAppears(p) ==
    CHOOSE j \in DOMAIN links :
        HasPrefix(links[j], p) /\ \A h \in 1..(j - 1) : ~HasPrefix(links[h], p)

\* the links that share a path prefix are contiguous in the listing
ContiguousListing ==
    \A p \in AllPathPrefixes : \A a, b, c \in DOMAIN links :
        (a < b /\ b < c /\ HasPrefix(links[a], p) /\ HasPrefix(links[c], p))
            => HasPrefix(links[b], p)

RECURSIVE NodePath(_, _)
\* the names on the way from below the root to a node
NodePath(t, n) ==
    IF t[n].parent = 0 THEN <<>> ELSE Append(NodePath(t, t[n].parent), t[n].name)

ShownPath(p) == [i \in 1..Len(p) |-> format_section(p[i])]

NodesOf(p) == {n \in 2..Len(tree) : NodePath(tree, n) = ShownPath(p)}

\* C13 (as stated): for a listing in which the links that share a path prefix are
\* contiguous, build_tree returns a tree with the single root Meilisearch
\* Documentation and exactly one node for each distinct path prefix, that node a
\* child of the node of its parent path, siblings in the order in which their paths
\* first appear in the listing.
C13_OneNodePerPathPrefix ==
    (cmd.name = "build_tree" /\ Finished /\ links # <<>> /\ ContiguousListing) =>
        /\ tree # <<>>
        /\ tree[1] = TreeNode(format_section(RootSection), links[1], 0)
        /\ \A n \in 2..Len(tree) : tree[n].parent \in 1..(n - 1)
        /\ Len(tree) - 1 = Cardinality(AllPathPrefixes)
        /\ \A p \in AllPathPrefixes : Cardinality(NodesOf(p)) = 1
        /\ \A p, q \in AllPathPrefixes :
              (Len(p) = Len(q) /\ HasPrefix(p, SubSeq(q, 1, Len(q) - 1))
                 /\ FirstAppears(p) < FirstAppears(q))
                => \A n \in NodesOf(p), m \in NodesOf(q) : n < m

\* the listings on which the names shown tell the paths apart: no two distinct
\* prefixes are shown alike, and no section is shown like the root or like a section
\* before it on its path
NamesTellPathsApart ==
    /\ \A p, q \in AllPathPrefixes : p # q => ShownPath(p) # ShownPath(q)
    /\ \A p \in AllPathPrefixes : \A i \in 1..Len(p) :
          /\ format_section(p[i]) # format_section(RootSection)
          /\ \A h \in 1..(i - 1) : format_section(p[h]) # format_section(p[i])

C13_OneNodePerToldApartPrefix == NamesTellPathsApart => C13_OneNodePerPathPrefix

\* the last thing rendered, and whether print_panel_or_raw itself was the call made
LastScreen == screen[Len(screen)]
Printed_panel_or_raw == cmd.name = "print_panel_or_raw" /\ Finished

BracesLine == <<Tok("text", "{}")>>
BracketsLine == <<Tok("text", "[]")>>

\* C14: in human mode an empty mapping is rendered as a panel whose text is {} and
\* an empty list as a panel whose text is [], and a field of a mapping whose value
\* is an empty mapping or an empty list shows {} or [] after its key; and what
\* delete-all with --wait shows, once its task has succeeded, is the panel with [].
C14_EmptyValuesRendered ==
    /\ (cmd = documents_delete_all /\ args.wait /\ ~args.raw /\ Finished
          /\ exitCode = 0 /\ screen # <<>>)
         => (LastScreen.kind = "panel" /\ LastScreen.panel.lines = <<BracketsLine>>
               /\ LastScreen.panel.panels = <<>>)
    /\ (Printed_panel_or_raw /\ ~args.raw) =>
        /\ LastScreen.kind = "panel"
        /\ sample = EmptyDict =>
              (LastScreen.panel.lines = <<BracesLine>> /\ LastScreen.panel.panels = <<>>)
        /\ sample = EmptyList =>
              (LastScreen.panel.lines = <<BracketsLine>> /\ LastScreen.panel.panels = <<>>)
        /\ sample.t = "dict" =>
              \A i \in DOMAIN sample.items :
                  /\ sample.items[i].value = EmptyDict =>
                        LastScreen.panel.lines[i]
                          = <<Tok("green", sample.items[i].key), Tok("punct", ":")>>
                              \o BracesLine
                  /\ sample.items[i].value = EmptyList =>
                        LastScreen.panel.lines[i]
                          = <<Tok("green", sample.items[i].key), Tok("punct", ":")>>
                              \o BracketsLine

C14_Witness ==
    /\ Printed_panel_or_raw /\ ~args.raw /\ sample = EmptyDict
    /\ LastScreen.panel.lines = <<BracesLine>>

NullTok == Tok("null", "null")
NoneTok == Tok("text", "None")

\* the fields of the mapping printed whose value is None
NoneFields == {i \in DOMAIN sample.items : sample.items[i].value = PyNone}

\* None as a field value: null after the key in raw mode, None in human mode
NoneFieldsRendered ==
    sample.t = "dict" =>
        IF args.raw
          THEN \A i \in NoneFields : \E j \in DOMAIN LastScreen.json :
                  /\ LastScreen.json[j] = Tok("key", sample.items[i].key)
                  /\ LastScreen.json[j + 2] = NullTok
          ELSE \A i \in NoneFields :
                  LastScreen.panel.lines[i]
                    = <<Tok("green", sample.items[i].key), Tok("punct", ":"), NoneTok>>

\* C15 (as stated): None is rendered as null in raw mode and as the word None in
\* human mode, when it is the whole value printed and when it is the value of a
\* field of a mapping.
C15_NoneRendered ==
    Printed_panel_or_raw =>
        /\ sample = PyNone =>
              IF args.raw THEN LastScreen.json = <<NullTok>>
                          ELSE LastScreen.panel.lines = <<<<NoneTok>>>>
        /\ NoneFieldsRendered

\* C15 (amended): None is rendered as null in raw mode, as the whole value and as
\* the value of a field; in human mode it is rendered as the word None when it is the
\* value of a field of a mapping, and as a panel without any text when it is the
\* whole value printed.
C15_NoneRenderedOrEmptyPanel ==
    Printed_panel_or_raw =>
        /\ sample = PyNone =>
              IF args.raw
                THEN LastScreen.json = <<NullTok>>
                ELSE LastScreen.panel.lines = <<>> /\ LastScreen.panel.panels = <<>>
        /\ NoneFieldsRendered

C15_Witness ==
    /\ Printed_panel_or_raw /\ ~args.raw /\ sample = PyNone
    /\ LastScreen.kind = "panel" /\ LastScreen.panel.lines = <<>>

RECURSIVE PanelToks(_)
\* every piece of text a panel shows, its sub-panels included
PanelToks(p) ==
    UNION ({Range(p.lines[i]) : i \in DOMAIN p.lines}
             \cup {PanelToks(p.panels[i]) : i \in DOMAIN p.panels})

\* the keys and values a rendering shows, as bare words: quotes, colour and the
\* spelling of null left aside
ShownWords(r) ==
    IF r.kind = "json"
      THEN {IF tok.k = "null" THEN "None" ELSE tok.s :
              tok \in {x \in Range(r.json) : x.k \in {"key", "string", "number", "null"}}}
      ELSE {tok.s : tok \in {x \in PanelToks(r.panel) :
                                /\ x.k \in {"green", "quoted", "text"}
                                /\ x \notin {Tok("text", "{}"), Tok("text", "[]")}}}

\* the keys of the mapping itself that a rendering shows
ShownKeys(r) ==
    IF r.kind = "json"
      THEN {tok.s : tok \in {x \in Range(r.json) : x.k = "key"}}
      ELSE {tok.s : tok \in {x \in PanelToks(r.panel) : x.k \in {"green"}}}

RECURSIVE KeysOf(_)
KeysOf(v) ==
    IF v.t = "dict"
      THEN {v.items[i].key : i \in DOMAIN v.items}
             \cup UNION {KeysOf(v.items[i].value) : i \in DOMAIN v.items}
    ELSE IF v.t = "list" THEN UNION {KeysOf(v.items[i]) : i \in DOMAIN v.items}
    ELSE {}

\* C16: a call of print_panel_or_raw renders once: with raw the JSON dump of the
\* data and no panel, without raw the panel and no JSON; and for a mapping the two
\* renderings show the same keys and the same values, every key of the mapping
\* among them.
C16_OneRenderingSameContent ==
    Printed_panel_or_raw =>
        /\ Len(screen) = 1
        /\ IF args.raw
             THEN /\ LastScreen.kind = "json" /\ LastScreen.panel = NoPanel
                  /\ LastScreen.json # <<>>
             ELSE /\ LastScreen.kind = "panel" /\ LastScreen.json = <<>>
                  /\ LastScreen.panel.title = cmd.title
        /\ sample.t = "dict" =>
              LET other == print_panel_or_raw_screen(~args.raw, sample, cmd.title) IN
              /\ ShownWords(LastScreen) = ShownWords(other)
              /\ {sample.items[i].key : i \in DOMAIN sample.items} \subseteq ShownKeys(LastScreen)
              /\ KeysOf(sample) \subseteq ShownWords(LastScreen)

C16_Witness ==
    /\ Printed_panel_or_raw /\ args.raw
    /\ sample = PyDict(<<Item("id", PyInt("1")), Item("name", PyStr("test"))>>)
    /\ ShownWords(LastScreen) = {"id", "1", "name", "test"}

\* the commands that update settings, and a run of one with --wait that went through:
\* the task succeeded and what retrieve_method returned was printed
SettingsUpdateCommands ==
    {c \in Commands : c.request \in UpdateOps \cup {"update_settings"}}

UpdatedAndRead ==
    /\ cmd \in SettingsUpdateCommands /\ args.wait
    /\ Finished /\ exitCode = 0 /\ screen # <<>>

\* the settings given on the command line, as name and value: the options of
\* update-settings that were given, or the one value of a single-setting command
SuppliedSettings ==
    IF cmd = index_update_settings
      THEN (IF args.distinct_attribute # PyNone
              THEN <<Item("distinctAttribute", args.distinct_attribute)>> ELSE <<>>)
           \o (IF args.stop_words # PyNone
                 THEN <<Item("stopWords", args.stop_words)>> ELSE <<>>)
           \o (IF args.json # None /\ json_loads(args.json).ok
                 THEN <<Item("synonyms", json_loads(args.json).value)>> ELSE <<>>)
      ELSE <<Item(OpSetting(cmd.request), payload)>>

\* a setting as the command read it back
ReadBack(name) == IF cmd.retrieve = "get_settings" THEN Field(retrieved, name) ELSE retrieved

RECURSIVE WordsOf(_)
\* the keys and the leaves of a value, as bare words
WordsOf(v) ==
    IF v.t = "dict"
      THEN {v.items[i].key : i \in DOMAIN v.items}
             \cup UNION {WordsOf(v.items[i].value) : i \in DOMAIN v.items}
    ELSE IF v.t = "list" THEN UNION {WordsOf(v.items[i]) : i \in DOMAIN v.items}
    ELSE IF v.t = "none" THEN {"None"}
    ELSE {v.s}

RoundTrip(supplied) ==
    \A i \in DOMAIN supplied :
        /\ store.settings[supplied[i].key] = supplied[i].value
        /\ ReadBack(supplied[i].key) = supplied[i].value
        /\ WordsOf(supplied[i].value) \subseteq ShownWords(LastScreen)

AddedAndRead ==
    /\ cmd.name = "documents.add" /\ args.wait
    /\ Finished /\ exitCode = 0 /\ screen # <<>>

\* the documents of the JSON string given to the command
SubmittedDocuments == PayloadDocuments(json_loads(args.json).value)

ServerCalls == SelectSeq(calls, LAMBDA c : c.fn \in RequestCalls)

C20_HealthNeedsUrlOnly ==
    (cmd = main_health /\ Finished) =>
        IF Truthy(args.url)
          THEN /\ connection = Client(args.url, None)
               /\ Len(ServerCalls) = 1 /\ ServerCalls[1].op = "health"
               /\ raised = "none" =>
                     (out = <<PlainItem(<<>>, ResultData("health"))>> /\ exitCode = 0)
               /\ \A i \in DOMAIN out : out[i].kind # "error"
          ELSE /\ out = <<ErrorLine(MsgHealthUrlMissing)>>
               /\ "MEILI_HTTP_ADDR" \in Range(MsgHealthUrlMissing)
               /\ "MEILI_MASTER_KEY" \notin Range(MsgHealthUrlMissing)
               /\ ServerCalls = <<>> /\ ~Called("Client")
               /\ connection = NoConnection
               /\ exitCode = 0 /\ raised = "none"

C20_Witness ==
    /\ cmd = main_health /\ Finished
    /\ given = Given(None, "http://env:7700", None, None)
    /\ out = <<PlainItem(<<>>, ResultData("health"))>>

RECURSIVE Depth(_, _)
\* how far below the root a node is
Depth(t, n) == IF t[n].parent = 0 THEN 0 ELSE 1 + Depth(t, t[n].parent)

BuiltTree == cmd.name = "build_tree" /\ Finished /\ links # <<>>

\* C21 (as stated): for every list of links, in any order, every path prefix of every
\* link has a node that lies beneath the nodes of the sections before it on the path,
\* and siblings are in the order in which their paths first appear.
C21_EverySegmentBeneathItsParent ==
    BuiltTree =>
        /\ \A p \in AllPathPrefixes : NodesOf(p) # {}
        /\ \A p, q \in AllPathPrefixes :
              (Len(p) = Len(q) /\ HasPrefix(p, SubSeq(q, 1, Len(q) - 1))
                 /\ FirstAppears(p) < FirstAppears(q))
                => \A n \in NodesOf(p), m \in NodesOf(q) : n <= m

\* C22: in the tree build_tree returns no node has two children with the same label.
C22_NoTwoChildrenAlike ==
    BuiltTree =>
        \A n, m \in 2..Len(tree) :
            (n # m /\ tree[n].parent = tree[m].parent) => tree[n].name # tree[m].name

C22_Witness ==
    /\ BuiltTree
    /\ \E n, m \in 2..Len(tree) : n # m /\ tree[n].parent = tree[m].parent
    /\ \E i, j \in DOMAIN links : i # j /\ links[i] = links[j] /\ links[i] # <<>>

\* C23 (as stated): in the tree build_tree returns every node sits at the depth of a
\* section of its link that is shown with the node's name: the section at index d of
\* the split link (the root at index 0) is at depth d.
C23_NodeDepthIsSegmentIndex ==
    BuiltTree =>
        \A n \in 1..Len(tree) :
            LET split == split_link(tree[n].link) IN
            \E d \in 0..(Len(split) - 1) :
                /\ format_section(split[d + 1]) = tree[n].name
                /\ Depth(tree, n) = d

\* the calls of the request method made so far
Submissions == {i \in DOMAIN calls : calls[i].fn = "request_method"}

InProcessRequest ==
    \/ pc \in {"pr_wait", "pr_poll", "pr_check_index_status", "pr_failed_check",
               "pr_retrieve"}
    \/ Called("wait_for_task") \/ Called("check_index_status") \/ Called("retrieve_method")

\* C24: a command that goes through process_request calls the request method once:
\* never more than once, with or without --wait, and exactly once by the time it
\* waits, checks, retrieves or has ended after doing so -- also when a task failed,
\* stayed pending until the time was up, or the retrieval was refused; and the
\* server holds no more tasks than that one submission returned.
C24_RequestSubmittedOnce ==
    HasStep(cmd, "process_request") =>
        /\ Cardinality(Submissions) <= 1
        /\ InProcessRequest => Cardinality(Submissions) = 1
        /\ Len(tasks) = Len(update.uids)
        /\ (Finished /\ (screen # <<>> \/ raised = "MeiliSearchTimeoutError"))
              => Cardinality(Submissions) = 1

C24_Witness ==
    /\ HasStep(cmd, "process_request") /\ args.wait /\ Finished
    /\ raised = "MeiliSearchTimeoutError"
    /\ Cardinality(Submissions) = 1 /\ Len(tasks) = 1

\* the wait_for_task calls made so far, in order
Waits == SelectSeq(calls, LAMBDA c : c.fn = "wait_for_task")

\* C25: when the submission returned a list of tasks and --wait is set, the tasks are
\* waited for one at a time in the order returned: the j-th wait is for the j-th
\* task, it is made only when every task before it has succeeded, at most one wait
\* is under way, and a command that met a failed task ended with status 1 at that
\* task, with no wait for a later one.
C25_TasksWaitedInOrder ==
    (HasStep(cmd, "process_request") /\ args.wait /\ update.isList) =>
        /\ Len(Waits) <= Len(update.uids)
        /\ \A j \in DOMAIN Waits :
              /\ Waits[j].uid = update.uids[j]
              /\ \A h \in 1..(j - 1) : tasks[update.uids[h] + 1].status = "succeeded"
        /\ pc \in {"pr_poll", "pr_failed_check"} => Len(Waits) = k
        /\ (Finished /\ response.status = "failed") =>
              /\ exitCode = 1
              /\ response.uid = update.uids[Len(Waits)]
              /\ tasks[response.uid + 1].status = "failed"

C25_Witness ==
    /\ HasStep(cmd, "process_request") /\ args.wait /\ update.isList
    /\ Len(update.uids) = 2 /\ Finished /\ exitCode = 1
    /\ tasks[update.uids[1] + 1].status = "failed"
    /\ Len(Waits) = 1

\* the check of the single-task path has been made
Checked == Called("check_index_status") /\ pc # "pr_check_index_status"

\* position of the first call of fn in the call log, 0 when there is none
FirstCall(fn) ==
    IF Called(fn) THEN CHOOSE i \in DOMAIN calls :
                         calls[i].fn = fn /\ \A j \in 1..(i - 1) : calls[j].fn # fn
    ELSE 0

Waited == HasStep(cmd, "process_request") /\ args.wait

AllSubmittedTerminal == \A t \in SubmittedTasks : tasks[t].status \notin PendingStatuses

RetrievedResultPrinted ==
    out = <<print_panel_or_raw(args.raw, ResultData(cmd.retrieve), cmd.title)>>

FailedRecordPrinted ==
    out = <<print_panel_or_raw(args.raw, TaskData(response), "Failed")>>

IndexErrorPrinted ==
    \/ out = <<ErrorLine(<<"Index", args.index, "not found">>)>>
    \/ out = <<ErrorLine(<<"Index", args.index, "already exists">>)>>

PrintedExactlyOne == RetrievedResultPrinted \/ FailedRecordPrinted \/ IndexErrorPrinted

UncaughtExceptions == {"MeiliSearchTimeoutError", "MeiliSearchError", "MeiliSearchApiError"}

\* C27 (as stated): a command run with --wait whose submitted tasks have all reached a
\* terminal state has, when it has terminated, printed exactly one of the retrieved
\* result, the Failed task record or an index-error message.
C27_TerminatedHasPrintedOne ==
    (Waited /\ Called("request_method") /\ update # NoUpdate /\ AllSubmittedTerminal
        /\ Finished) => PrintedExactlyOne

\* C27 (amended): a command run with --wait that reached its submission eventually
\* terminates, whatever the server does with the tasks; when it has terminated it
\* has either printed exactly one of the retrieved result, the Failed task record
\* or an index-error message and raised nothing, or it has printed nothing and
\* ended with an uncaught MeiliSearchTimeoutError, MeiliSearchError or
\* MeiliSearchApiError.
C27_WaitTerminates ==
    /\ [](Waited => <>Finished)
    /\ []((Waited /\ Called("request_method") /\ Finished) =>
            \/ raised = "none" /\ PrintedExactlyOne
            \/ raised \in UncaughtExceptions /\ out = <<>> /\ exitCode = 1)

C27_Witness ==
    /\ Waited /\ Finished /\ update.isList /\ Len(update.uids) = MaxBatches
    /\ k = MaxBatches /\ elapsed > 0
    /\ AllSubmittedTerminal /\ RetrievedResultPrinted /\ raised = "none"

UpdateFromFileCommands == {documents_update_from_file, main_update_documents_from_file}

\* C28: the submission of update-from-file goes to the server's update-documents
\* operation, the one update and update-in-batches submit to, and not to the
\* add-or-replace operation add-from-file submits to.
C28_UpdateFromFileUpdates ==
    \A i \in DOMAIN calls :
        (cmd \in UpdateFromFileCommands /\ calls[i].fn = "request_method") =>
            /\ ServerOperation(calls[i].op) = ServerOperation(documents_update.request)
            /\ ServerOperation(calls[i].op) = ServerOperation(documents_update_in_batches.request)
            /\ ServerOperation(calls[i].op) # ServerOperation(documents_add_from_file.request)

\* the option was given on the command line (--matches is a flag: given is True)
Supplied(option) == options[option].t # "none" /\ options[option] # PyBool(FALSE)

\* what the search call passed to the server besides the query
Forwarded ==
    IF \E i \in DOMAIN calls : calls[i] = SearchCall(search_params) /\ search_params # <<>>
      THEN PyDict(search_params) ELSE EmptyDict

HasKey(dict, key) == \E i \in DOMAIN dict.items : dict.items[i].key = key

\* C29: when search has issued its request, every option supplied is among the
\* parameters forwarded, under its API name and with the value supplied, a
\* numeric 0 included; an option not supplied is not among them; and with no
\* option supplied the search is issued with the query alone.
C29_SearchForwardsSupplied ==
    (cmd.name = "main.search" /\ Called("search")) =>
        /\ \A i \in DOMAIN SearchOptionNames :
              LET n == SearchOptionNames[i] IN
              IF Supplied(n)
                THEN /\ HasKey(Forwarded, ParamName(n))
                     /\ Field(Forwarded, ParamName(n)) = options[n]
                ELSE ~HasKey(Forwarded, ParamName(n))
        /\ (\A i \in DOMAIN SearchOptionNames : ~Supplied(SearchOptionNames[i]))
              => calls[Len(calls)] = Call("search", "query", 0, 0)

\* a panel whose content is one nested panel per element of the list, in list order
RECURSIVE ElementByElement(_, _)
ElementByElement(panel, list) ==
    /\ panel.lines = <<>>
    /\ Len(panel.panels) = Len(list.items)
    /\ \A i \in DOMAIN list.items :
          LET d == list.items[i]
              p == panel.panels[i]
          IN  /\ p.title = "" /\ ~p.fit /\ p.border = "dodger_blue1"
              /\ CASE d.t = "list" /\ d.items # <<>> -> ElementByElement(p, d)
                    [] d.t = "list" -> p.lines = <<BracketsLine>> /\ p.panels = <<>>
                    [] d.t = "str" -> p.lines = <<<<Tok("text", d.s)>>>> /\ p.panels = <<>>
                    [] OTHER ->
                         /\ p.panels = <<>>
                         /\ d # EmptyDict =>
                               /\ Len(p.lines) = Len(d.items)
                               /\ \A j \in DOMAIN d.items :
                                     p.lines[j][1] = Tok("green", d.items[j].key)

\* the lists that are values of the mapping's keys
ListValues(data) ==
    {data.items[i].value : i \in {j \in DOMAIN data.items : data.items[j].value.t = "list"}}

\* C30 (as stated): in a panel, every list of the data, the top-level value or a
\* list inside it, is rendered element by element, one nested panel per element in
\* list order; so the panel of a mapping holds the element panels of its list values.
C30_EveryListElementByElement ==
    (Printed_panel_or_raw /\ ~args.raw) =>
        /\ (sample.t = "list" /\ sample.items # <<>>)
              => ElementByElement(LastScreen.panel, sample)
        /\ sample.t = "dict" =>
              \A v \in ListValues(sample) : \A i \in DOMAIN v.items :
                 \E h \in DOMAIN LastScreen.panel.panels :
                    LastScreen.panel.panels[h].lines = <<py_str(v.items[i])>>

\* C30 (amended): a non-empty list that is the top-level value, or an element of
\* such a list at any depth, is rendered element by element, one nested panel per
\* element in list order; an empty list is rendered as the text []; a list that is
\* the value of a mapping's key is not: it is printed on its key's line as the text
\* Python's str gives it, and the mapping's panel holds no nested panel.
C30_ListsOfListsElementByElement ==
    (Printed_panel_or_raw /\ ~args.raw) =>
        /\ (sample.t = "list" /\ sample.items # <<>>)
              => ElementByElement(LastScreen.panel, sample)
        /\ sample = EmptyList =>
              (LastScreen.panel.lines = <<BracketsLine>> /\ LastScreen.panel.panels = <<>>)
        /\ sample.t = "dict" =>
              /\ LastScreen.panel.panels = <<>>
              /\ \A i \in DOMAIN sample.items :
                    sample.items[i].value.t = "list" =>
                       LastScreen.panel.lines[i] =
                          <<Tok("green", sample.items[i].key), Tok("punct", ":")>>
                             \o py_repr(sample.items[i].value)

C30_Witness ==
    /\ Printed_panel_or_raw /\ ~args.raw
    /\ sample = PyList(<<PyList(<<PyDict(<<Item("id", PyInt("1"))>>)>>), EmptyList>>)
    /\ Len(LastScreen.panel.panels) = 2
    /\ Len(LastScreen.panel.panels[1].panels) = 1
    /\ LastScreen.panel.panels[1].panels[1].lines[1][1] = Tok("green", "id")
    /\ LastScreen.panel.panels[2].lines = <<BracketsLine>>

====
